---- MODULE Spec2Model ----
(***************************************************************************)
(* A model of the invoice editor: the calculation engine                   *)
(* (utils/invoiceCalculations.ts), the localStorage layer                   *)
(* (utils/storage.ts: templates, current invoice, numbering counter,       *)
(* export/import), the App component's handlers (App.tsx), the invoice     *)
(* editor's edit operations (components/InvoiceEditor.tsx), the template   *)
(* manager (components/TemplateManager.tsx), the logger (utils/logger.ts)  *)
(* and the PDF generator (utils/pdfGenerator.ts).                          *)
(*                                                                         *)
(* Conventions.                                                            *)
(*  - A JavaScript value that the code uses as a number is a record        *)
(*    [k, v]: k = "num" (v is the number), "nan", "str" (a non-numeric     *)
(*    string such as "abc") or "undef" (a missing property).               *)
(*  - Money is counted in hundredths: unitPrice 100 is 10000 and the seed  *)
(*    price 5231.25 is 523125.  Quantities and VAT rates are plain         *)
(*    integers.  The prices and rates of the model are chosen so that      *)
(*    subtotal * vatRate is a multiple of 100: every quotient the engine   *)
(*    computes is then exact (C2_ReverseCharge states it).                 *)
(*  - A JavaScript string is a sequence of one-character strings.          *)
(*  - A Partial<Invoice> is an invoice record with the set `keys` of the   *)
(*    properties it has; a property it lacks holds a fixed filler.         *)
(***************************************************************************)
EXTENDS Integers, Sequences, FiniteSets

VARIABLES
  \* ---- the calculation engine exercised on its own (SpecCalc)
  cx,           \* the invoice handed to recalculateInvoice
  cy,           \* recalculateInvoice(cx)
  cz,           \* recalculateInvoice(recalculateInvoice(cx))
  cpc,          \* "input", "once", "twice"
  \* ---- the browser: clock, time zone, localStorage
  now,          \* Date.now(), counted in half days
  tz,           \* offset of local time from UTC, in the same unit
  setItemThrows, \* localStorage.setItem fails (the quota is exceeded)
  lsTemplates,  \* localStorage['invoice_templates']:  [present, v]
  lsInvoice,    \* localStorage['current_invoice']:    [present, v]
  lsCounter,    \* localStorage['last_invoice_number']: [present, v]
  \* ---- the App component
  started,      \* the App has been constructed
  invoice,      \* useState<Invoice>
  view,         \* useState<View>
  savePending,  \* the auto-save effect is scheduled
  \* ---- the TemplateManager component (mounted while view = "templates")
  tmTemplates,  \* useState<InvoiceTemplate[]>
  \* ---- the logger (utils/logger.ts)
  lsLogs,       \* localStorage['invoice_app_logs']:  [present, v]
  lsSettings,   \* localStorage['logger_settings']:   [present, v]
  enabled,      \* Logger.enabled
  minLevel,     \* Logger.minLevel
  logCount,     \* log entries created so far
  style,        \* the preview element's inline style: [width, minHeight]
  generations,  \* the calls of generateInvoicePDF: position and saved styles
  \* ---- the user's files
  download,     \* the backup file kept from an export: [doc, from]
  \* ---- numbering requests in flight (SpecSerial)
  reqPc,        \* per requester: "idle", "read", "written"
  reqLast,      \* per requester: the lastNumber it read
  \* ---- observation (history) variables
  calls,        \* numbering calls made so far
  steps,        \* operations performed so far (Spec)
  issued,       \* the numbers returned since the last import / clear
  derived       \* the invoices produced so far: [kind, tpl, inv]

calcVars == <<cx, cy, cz, cpc>>
envVars == <<now, tz, setItemThrows>>
storeVars == <<lsTemplates, lsInvoice, lsCounter>>
appVars == <<started, invoice, view, savePending, tmTemplates>>
logVars == <<lsLogs, lsSettings, enabled, minLevel, logCount>>
pdfVars == <<style, generations>>
fileVars == <<download>>
reqVars == <<reqPc, reqLast>>
histVars == <<calls, steps, issued, derived>>
obsVars == <<steps, issued, derived>>
vars == <<calcVars, envVars, storeVars, appVars, logVars, pdfVars, fileVars, reqVars, histVars>>

----------------------------------------------------------------------------
(* JavaScript numbers                                                      *)

Num(n) == [k |-> "num", v |-> n]
NaN == [k |-> "nan", v |-> 0]
StrAbc == [k |-> "str", v |-> 0]
Undef == [k |-> "undef", v |-> 0]

IsNum(a) == a.k = "num"
IsNaN(a) == a.k = "nan"

\* ToNumber of the language: a number is itself, null is 0, "abc" and
\* undefined are NaN.
ToNumber(a) ==
  IF a.k = "num" THEN a ELSE IF a.k = "null" THEN [k |-> "num", v |-> 0] ELSE NaN

\* a * b
JSMul(a, b) ==
  LET x == ToNumber(a)
      y == ToNumber(b)
  IN IF IsNum(x) /\ IsNum(y) THEN Num(x.v * y.v) ELSE NaN

\* a + b; both operands are numbers (or NaN) wherever the engine adds
JSAdd(a, b) ==
  LET x == ToNumber(a)
      y == ToNumber(b)
  IN IF IsNum(x) /\ IsNum(y) THEN Num(x.v + y.v) ELSE NaN

\* a / b for b a non-zero number
JSDiv(a, b) ==
  LET x == ToNumber(a)
      y == ToNumber(b)
  IN IF IsNum(x) /\ IsNum(y) THEN Num(x.v \div y.v) ELSE NaN

----------------------------------------------------------------------------
(* JavaScript strings                                                      *)

Digits == <<"0", "1", "2", "3", "4", "5", "6", "7", "8", "9">>

RECURSIVE NatToString(_)
NatToString(n) ==
  IF n < 10 THEN <<Digits[n + 1]>>
  ELSE NatToString(n \div 10) \o <<Digits[(n % 10) + 1]>>

\* Number.prototype.toString() / String(n) of an integer
NumberToString(n) == IF n < 0 THEN <<"-">> \o NatToString(0 - n) ELSE NatToString(n)

\* String.prototype.padStart(len, c) for a one-character c
RECURSIVE PadStart(_, _, _)
PadStart(s, len, c) ==
  IF Len(s) >= len THEN s ELSE PadStart(<<c>> \o s, len, c)

DigitValue(c) == CHOOSE d \in 0..9 : Digits[d + 1] = c
IsDigit(c) == \E d \in 0..9 : Digits[d + 1] = c

RECURSIVE ParseNat(_, _)
ParseNat(s, acc) ==
  IF s = <<>> \/ ~IsDigit(Head(s)) THEN acc
  ELSE ParseNat(Tail(s), acc * 10 + DigitValue(Head(s)))

\* parseInt(s, 10) of a string that starts with a decimal integer
ParseInt(s) ==
  IF s # <<>> /\ Head(s) = "-" THEN 0 - ParseNat(Tail(s), 0)
  ELSE ParseNat(s, 0)

----------------------------------------------------------------------------
(* utils/invoiceCalculations.ts                                            *)

\* a mutation of calculateServiceAmount: the sum in place of the product
calculateServiceAmountSum(quantity, unitPrice) == JSAdd(quantity, unitPrice)

calculateServiceAmount(quantity, unitPrice) == JSMul(quantity, unitPrice)

RECURSIVE Reduce(_, _)
Reduce(services, sum) ==
  IF services = <<>> THEN sum
  ELSE Reduce(Tail(services), JSAdd(sum, Head(services).amount))

calculateSubtotal(services) == Reduce(services, Num(0))

calculateVAT(subtotal, vatRate) == JSDiv(JSMul(subtotal, vatRate), Num(100))

calculateTotal(subtotal, vatAmount) == JSAdd(subtotal, vatAmount)

WithAmounts(services) ==
  [i \in 1..Len(services) |->
     [services[i] EXCEPT
        !.amount = calculateServiceAmount(services[i].quantity,
                                          services[i].unitPrice)]]

\* recalculateInvoice throws a TypeError when it reads a property of undefined
RecalculateThrows(inv) ==
  \/ "services" \notin inv.keys
  \/ "reverseCharge" \notin inv.keys

\* a mutation of recalculateInvoice: the new subtotal is added to the old one
recalculateInvoiceAccumulate(inv) ==
  LET services == WithAmounts(inv.services)
      subtotal == JSAdd(inv.subtotal, calculateSubtotal(services))
      vatAmount == IF inv.reverseCharge.applicable THEN Num(0)
                   ELSE calculateVAT(subtotal, inv.vatRate)
      total == calculateTotal(subtotal, vatAmount)
  IN [inv EXCEPT !.services = services, !.subtotal = subtotal,
                 !.vatAmount = vatAmount, !.total = total,
                 !.keys = @ \cup {"services", "subtotal", "vatAmount", "total"}]

\* a mutation of recalculateInvoice: reverse charge is not looked at
recalculateInvoiceNoReverse(inv) ==
  LET services == WithAmounts(inv.services)
      subtotal == calculateSubtotal(services)
      vatAmount == calculateVAT(subtotal, inv.vatRate)
      total == calculateTotal(subtotal, vatAmount)
  IN [inv EXCEPT !.services = services, !.subtotal = subtotal,
                 !.vatAmount = vatAmount, !.total = total,
                 !.keys = @ \cup {"services", "subtotal", "vatAmount", "total"}]

recalculateInvoice(inv) ==
  LET services == WithAmounts(inv.services)
      subtotal == calculateSubtotal(services)
      vatAmount == IF inv.reverseCharge.applicable THEN Num(0)
                   ELSE calculateVAT(subtotal, inv.vatRate)
      total == calculateTotal(subtotal, vatAmount)
  IN [inv EXCEPT !.services = services, !.subtotal = subtotal,
                 !.vatAmount = vatAmount, !.total = total,
                 !.keys = @ \cup {"services", "subtotal", "vatAmount", "total"}]

----------------------------------------------------------------------------
(* types/invoice.types.ts                                                  *)

AllKeys ==
  {"id", "company", "client", "details", "services", "payment",
   "reverseCharge", "vatRate", "subtotal", "vatAmount", "total"}

\* the properties a template saved by the application carries
ContentKeys ==
  {"company", "client", "services", "payment", "reverseCharge", "vatRate"}

NoDetails ==
  [invoiceNumber |-> <<>>, invoiceDate |-> <<>>,
   servicePeriodStart |-> <<>>, servicePeriodEnd |-> <<>>]

ServiceItem(id, description, quantity, unitPrice, amount) ==
  [id |-> id, description |-> description, quantity |-> quantity,
   unitPrice |-> unitPrice, amount |-> amount]

----------------------------------------------------------------------------
(* The calculation engine on its own: SpecCalc                             *)

MaxCalcItems == 2

CalcQuantities == {Num(1), Num(2), StrAbc}
CalcPrices == {Num(1000), Num(10000), StrAbc}
CalcStaleAmounts == {Num(0), Num(7)}
CalcRates == {Num(0), Num(20)}
CalcStaleTotals == {Num(0), Num(5)}

CalcItemSeqs ==
  UNION {[1..n -> CalcQuantities \X CalcPrices \X CalcStaleAmounts] :
           n \in 0..MaxCalcItems}

CalcInvoice(items, applicable, vatRate, stale) ==
  [keys |-> AllKeys,
   id |-> <<"1">>,
   company |-> "MB Core vienas",
   client |-> "SOPHARMA TRADING AD",
   details |-> NoDetails,
   services |-> [i \in 1..Len(items) |->
                   ServiceItem(NumberToString(i), "Consulting Services",
                               items[i][1], items[i][2], items[i][3])],
   payment |-> "Swedbank, AB",
   reverseCharge |-> [applicable |-> applicable],
   vatRate |-> vatRate,
   subtotal |-> stale,
   vatAmount |-> stale,
   total |-> stale]

CalcIdle == CalcInvoice(<<>>, TRUE, Num(0), Num(0))

CalcOnce ==
  /\ cpc = "input"
  /\ ~RecalculateThrows(cx)
  /\ cy' = recalculateInvoice(cx)
  /\ cpc' = "once"
  /\ UNCHANGED <<cx, cz>>

CalcTwice ==
  /\ cpc = "once"
  /\ cz' = recalculateInvoice(cy)
  /\ cpc' = "twice"
  /\ UNCHANGED <<cx, cy>>

----------------------------------------------------------------------------
(* The browser's clock and calendar                                        *)

\* Time is counted in half days, not in milliseconds; Date.now() is the count.
HalfDay == 1
DayLength == 2 * HalfDay

\* 2025-11-13T12:00:00.000Z, the instant the model starts at
StartTime == 20405 * DayLength + HalfDay

TzOffsets == {0, HalfDay}

\* the calendar date of the day that holds instant t: days are counted from
\* 2025-11-13; November has 30 days, December 31
CalendarDate(t) ==
  LET d == 13 + ((t \div DayLength) - 20405)
  IN IF d <= 30 THEN [year |-> 2025, month |-> 11, day |-> d]
     ELSE IF d <= 61 THEN [year |-> 2025, month |-> 12, day |-> d - 30]
     ELSE [year |-> 2026, month |-> 1, day |-> d - 61]

\* getFullYear / getMonth() + 1 / getDate: the date in local time
LocalDate(t, offset) == CalendarDate(t + offset)

\* `${year}-${month}-${day}` with month and day padded to two digits
DateString(date) ==
  NumberToString(date.year) \o <<"-">>
    \o PadStart(NumberToString(date.month), 2, "0") \o <<"-">>
    \o PadStart(NumberToString(date.day), 2, "0")

\* new Date(t).toISOString().split('T')[0]: the date in UTC
IsoDate(t) == DateString(CalendarDate(t))

----------------------------------------------------------------------------
(* utils/storage.ts                                                        *)

Absent == [present |-> FALSE, v |-> <<>>]
Stored(value) == [present |-> TRUE, v |-> value]

\* a mutation of SetItem: the value is stored although the call throws
SetItemTorn(ls, written) == written

\* localStorage.setItem(key, value) on the item ls, `written` being the item
\* that holds the value: when the quota is exceeded the call throws and the
\* item stays as it was
SetItem(ls, written) == IF setItemThrows THEN ls ELSE written

\* JSON.parse(JSON.stringify(x)) of a number: NaN is written as null
JsonNumber(a) == IF a.k = "nan" THEN [k |-> "null", v |-> 0] ELSE a

JsonInvoice(inv) ==
  [inv EXCEPT
     !.services = [i \in 1..Len(@) |->
                     [@[i] EXCEPT !.quantity = JsonNumber(@),
                                  !.unitPrice = JsonNumber(@),
                                  !.amount = JsonNumber(@)]],
     !.vatRate = JsonNumber(@),
     !.subtotal = JsonNumber(@),
     !.vatAmount = JsonNumber(@),
     !.total = JsonNumber(@)]

JsonTemplates(templates) ==
  [i \in 1..Len(templates) |->
     [templates[i] EXCEPT !.invoice = JsonInvoice(@)]]

loadTemplates(ls) == IF ls.present THEN ls.v ELSE <<>>

FindIndex(templates, id) ==
  IF \E i \in 1..Len(templates) : templates[i].id = id
    THEN CHOOSE i \in 1..Len(templates) :
           /\ templates[i].id = id
           /\ \A j \in 1..(i - 1) : templates[j].id # id
    ELSE 0

\* a mutation of saveTemplate: the record is always pushed
saveTemplateAppend(ls, template) ==
  Stored(JsonTemplates(Append(loadTemplates(ls), template)))

\* the value saveTemplate writes under 'invoice_templates'
saveTemplate(ls, template) ==
  LET templates == loadTemplates(ls)
      index == FindIndex(templates, template.id)
  IN Stored(JsonTemplates(IF index >= 1
                            THEN [templates EXCEPT ![index] = template]
                            ELSE Append(templates, template)))

RECURSIVE Filter(_, _)
Filter(templates, id) ==
  IF templates = <<>> THEN <<>>
  ELSE IF Head(templates).id # id
         THEN <<Head(templates)>> \o Filter(Tail(templates), id)
         ELSE Filter(Tail(templates), id)

\* a mutation of deleteTemplate: with no record of that id the first record
\* is removed
deleteTemplateOrFirst(ls, id) ==
  IF FindIndex(loadTemplates(ls), id) = 0 /\ loadTemplates(ls) # <<>>
    THEN Stored(Tail(loadTemplates(ls)))
    ELSE Stored(Filter(loadTemplates(ls), id))

\* the value deleteTemplate writes under 'invoice_templates'
deleteTemplate(ls, id) == Stored(Filter(loadTemplates(ls), id))

\* getTemplate(id): `templates.find(t => t.id === id) || null`; null is Absent
getTemplate(ls, id) ==
  IF FindIndex(loadTemplates(ls), id) >= 1
    THEN Stored(loadTemplates(ls)[FindIndex(loadTemplates(ls), id)])
    ELSE Absent

\* loadCurrentInvoice(): `data ? JSON.parse(data) : null`
loadCurrentInvoice(ls) == IF ls.present THEN Stored(ls.v) ELSE Absent

saveCurrentInvoice(inv) == Stored(JsonInvoice(inv))

\* a mutation of saveLastInvoiceNumber: the number read is written back
saveLastInvoiceNumberStale(number) == Stored(NumberToString(number - 1))

saveLastInvoiceNumber(number) == Stored(NumberToString(number))

\* a mutation of getLastInvoiceNumber: the stored counter is not read
getLastInvoiceNumberZero(ls) == 0

\* `data ? parseInt(data, 10) : 0`: a missing key and the empty string are 0
getLastInvoiceNumber(ls) ==
  IF ls.present /\ ls.v # <<>> THEN ParseInt(ls.v) ELSE 0

\* a mutation of InvoiceNumberString: the sequence number is not padded
InvoiceNumberStringUnpadded(t, offset, newNumber) ==
  <<"C", "O", "R", "E", "-">> \o DateString(LocalDate(t, offset))
    \o <<"-">> \o NumberToString(newNumber)

\* the string generateInvoiceNumber returns
InvoiceNumberString(t, offset, newNumber) ==
  <<"C", "O", "R", "E", "-">> \o DateString(LocalDate(t, offset))
    \o <<"-">> \o PadStart(NumberToString(newNumber), 2, "0")

\* generateInvoiceNumber after its first line, lastNumber being what
\* getLastInvoiceNumber() returned: [counter: what it leaves under
\* 'last_invoice_number', number: what it returns]
NumberAfter(lastNumber, t, offset) ==
  LET newNumber == lastNumber + 1
  IN [counter |-> saveLastInvoiceNumber(newNumber),
      number |-> InvoiceNumberString(t, offset, newNumber)]

generateInvoiceNumber(ls, t, offset) ==
  NumberAfter(getLastInvoiceNumber(ls), t, offset)

----------------------------------------------------------------------------
(* templates/defaultTemplate.ts and the shapes built from an invoice       *)

Partial(keys, id, company, client, services, payment, applicable, vatRate) ==
  [keys |-> keys,
   id |-> id,
   company |-> company,
   client |-> client,
   details |-> NoDetails,
   services |-> services,
   payment |-> payment,
   reverseCharge |-> [applicable |-> applicable],
   vatRate |-> vatRate,
   subtotal |-> Undef,
   vatAmount |-> Undef,
   total |-> Undef]

DEFAULT_INVOICE_TEMPLATE ==
  Partial(ContentKeys, <<>>, "MB Core vienas", "SOPHARMA TRADING AD",
          <<ServiceItem(<<"1">>, "Consulting Services", Num(1), Num(523125),
                        Num(523125))>>,
          "Swedbank, AB", TRUE, Num(0))

\* {company: invoice.company, client: ..., services: ..., payment: ...,
\*  reverseCharge: ..., vatRate: ...}
ContentOf(inv) ==
  Partial(ContentKeys, <<>>, inv.company, inv.client, inv.services,
          inv.payment, inv.reverseCharge.applicable, inv.vatRate)

Template(id, name, content, createdAt, updatedAt) ==
  [id |-> id, name |-> name, invoice |-> content,
   createdAt |-> createdAt, updatedAt |-> updatedAt]

\* {id: Date.now().toString(), ...content, details: {...}, subtotal: 0,
\*  vatAmount: 0, total: 0}: a property `id` of the content, spread after
\* the fresh id, replaces it
InvoiceShell(content, t, number) ==
  [content EXCEPT
     !.keys = @ \cup {"id", "details", "subtotal", "vatAmount", "total"},
     !.id = IF "id" \in content.keys THEN @ ELSE NumberToString(t),
     !.details = [invoiceNumber |-> number,
                  invoiceDate |-> IsoDate(t),
                  servicePeriodStart |-> IsoDate(t),
                  servicePeriodEnd |-> IsoDate(t + 30 * DayLength)],
     !.subtotal = Num(0),
     !.vatAmount = Num(0),
     !.total = Num(0)]

\* the filler that stands where there is no invoice
NoInvoice == Partial({}, <<>>, "", "", <<>>, "", FALSE, Undef)

NoTemplate == Template(<<>>, "", NoInvoice, 0, 0)

----------------------------------------------------------------------------
(* App.tsx: construction, auto-save, renumbering                           *)

MaxTicks == 2
MaxIssued == 3
MaxServices == 2
MaxTemplates == 2
MaxSteps == 7

Idle == started /\ ~savePending

FrameCalc == UNCHANGED <<calcVars, reqVars, logVars, pdfVars, fileVars>>

\* numbering calls are counted, and the count is capped
CanIssue == calls < MaxIssued

\* what generateInvoiceNumber does in the current state
Issue == generateInvoiceNumber(lsCounter, now, tz)

\* time passes
Tick ==
  /\ now < StartTime + MaxTicks * HalfDay
  /\ now' = now + HalfDay
  /\ UNCHANGED <<tz, setItemThrows, storeVars, appVars, calls>>
  /\ FrameCalc

\* App(): the useState initializer and the first render; the auto-save
\* effect runs after the first render.  g is what generateInvoiceNumber
\* gives when the initializer calls it.
\* When generateInvoiceNumber throws in the initializer the render fails and
\* nothing is mounted.
StartWith(g) ==
  /\ ~started
  /\ IF lsInvoice.present
       THEN /\ invoice' = lsInvoice.v
            /\ started' = TRUE
            /\ savePending' = TRUE
            /\ UNCHANGED <<lsCounter, calls>>
       ELSE /\ CanIssue
            /\ lsCounter' = SetItem(lsCounter, g.counter)
            /\ IF setItemThrows
                 THEN UNCHANGED <<invoice, started, savePending, calls>>
                 ELSE /\ invoice' = recalculateInvoice(
                                      InvoiceShell(DEFAULT_INVOICE_TEMPLATE,
                                                   now, g.number))
                      /\ started' = TRUE
                      /\ savePending' = TRUE
                      /\ calls' = calls + 1
  /\ view' = "editor"
  /\ tmTemplates' = <<>>
  /\ UNCHANGED <<envVars, lsTemplates, lsInvoice>>

Start == StartWith(Issue) /\ FrameCalc

\* the page is closed or reloaded: the components' state is gone
Reload ==
  /\ started
  /\ started' = FALSE
  /\ invoice' = NoInvoice
  /\ view' = "editor"
  /\ savePending' = FALSE
  /\ tmTemplates' = <<>>
  /\ UNCHANGED <<envVars, storeVars, calls>>
  /\ FrameCalc

\* useEffect(() => saveCurrentInvoice(invoice), [invoice]); an exception
\* thrown by an effect is not caught by any error boundary of the
\* application, and React unmounts the tree
AutoSave ==
  /\ started
  /\ savePending
  /\ lsInvoice' = SetItem(lsInvoice, saveCurrentInvoice(invoice))
  /\ savePending' = FALSE
  /\ IF setItemThrows
       THEN /\ started' = FALSE
            /\ invoice' = NoInvoice
            /\ view' = "editor"
            /\ tmTemplates' = <<>>
       ELSE UNCHANGED <<started, invoice, view, tmTemplates>>
  /\ UNCHANGED <<envVars, lsTemplates, lsCounter, calls>>
  /\ FrameCalc

\* a mutation of handleGenerateNewNumberWith: the invoice date is set to the
\* day of the call as well
handleGenerateNewNumberRestamp(g) ==
  /\ Idle
  /\ view = "editor"
  /\ CanIssue
  /\ lsCounter' = g.counter
  /\ invoice' = [invoice EXCEPT !.details.invoiceNumber = g.number,
                                !.details.invoiceDate = IsoDate(now),
                                !.keys = @ \cup {"details"}]
  /\ calls' = calls + 1
  /\ savePending' = TRUE
  /\ UNCHANGED <<envVars, lsTemplates, lsInvoice, started, view, tmTemplates>>

\* handleGenerateNewNumber, g being what generateInvoiceNumber gives it
\* (the handler has no try: an exception of generateInvoiceNumber leaves it
\* before setInvoice)
handleGenerateNewNumberWith(g) ==
  /\ Idle
  /\ view = "editor"
  /\ CanIssue
  /\ lsCounter' = SetItem(lsCounter, g.counter)
  /\ IF setItemThrows
       THEN UNCHANGED <<invoice, calls, savePending>>
       ELSE /\ invoice' = [invoice EXCEPT
                             !.details.invoiceNumber = g.number,
                             !.keys = @ \cup {"details"}]
            /\ calls' = calls + 1
            /\ savePending' = TRUE
  /\ UNCHANGED <<envVars, lsTemplates, lsInvoice, started, view, tmTemplates>>

handleGenerateNewNumber == handleGenerateNewNumberWith(Issue) /\ FrameCalc

----------------------------------------------------------------------------
(* components/InvoiceEditor.tsx, shown while view = "editor"               *)

\* what the user types into a number field: "2", "20", "10000" or "abc"
QuantityInputs == {Num(2), StrAbc}
PriceInputs == {Num(10000)}
RateInputs == {Num(20)}
CompanyInputs == {"Edited company"}
ClientInputs == {"Edited client"}
PaymentInputs == {"Edited bank"}
DateInputs == {DateString([year |-> 2025, month |-> 12, day |-> 1])}

\* parseFloat(v) || 0
ParseFloatOrZero(text) == IF IsNum(text) /\ text.v # 0 THEN text ELSE Num(0)

EditorFrame ==
  /\ UNCHANGED <<envVars, storeVars, started, view, tmTemplates, calls>>
  /\ FrameCalc

\* a mutation of handleUpdate: the updated invoice is passed on as it is
handleUpdateNoRecalculate(updated) ==
  /\ invoice' = updated
  /\ savePending' = TRUE

\* handleUpdate: recalculateInvoice({...invoice, ...updates}), then
\* handleUpdateInvoice -> setInvoice; an exception leaves the state as it is
handleUpdate(updated) ==
  IF RecalculateThrows(updated)
    THEN UNCHANGED <<invoice, savePending>>
    ELSE /\ invoice' = recalculateInvoice(updated)
         /\ savePending' = TRUE

EditorOpen == Idle /\ view = "editor"

addService ==
  /\ EditorOpen
  /\ "services" \in invoice.keys
  /\ Len(invoice.services) < MaxServices
  /\ handleUpdate([invoice EXCEPT
       !.services = Append(@, ServiceItem(NumberToString(now), "New Service",
                                          Num(1), Num(0), Num(0)))])
  /\ EditorFrame

\* updateService(index, {quantity: parseFloat(v) || 0})
updateQuantity(index, text) ==
  /\ EditorOpen
  /\ "services" \in invoice.keys
  /\ index \in 1..Len(invoice.services)
  /\ handleUpdate([invoice EXCEPT
       !.services[index].quantity = ParseFloatOrZero(text)])
  /\ EditorFrame

\* updateService(index, {unitPrice: parseFloat(v) || 0})
updateUnitPrice(index, text) ==
  /\ EditorOpen
  /\ "services" \in invoice.keys
  /\ index \in 1..Len(invoice.services)
  /\ handleUpdate([invoice EXCEPT
       !.services[index].unitPrice = ParseFloatOrZero(text)])
  /\ EditorFrame

RemoveAt(seq, index) ==
  [i \in 1..(Len(seq) - 1) |-> IF i < index THEN seq[i] ELSE seq[i + 1]]

removeService(index) ==
  /\ EditorOpen
  /\ "services" \in invoice.keys
  /\ index \in 1..Len(invoice.services)
  /\ handleUpdate([invoice EXCEPT !.services = RemoveAt(@, index)])
  /\ EditorFrame

\* the reverse-charge checkbox
updateReverseChargeField ==
  /\ EditorOpen
  /\ "reverseCharge" \in invoice.keys
  /\ handleUpdate([invoice EXCEPT
       !.reverseCharge.applicable = ~invoice.reverseCharge.applicable])
  /\ EditorFrame

\* the VAT rate field, rendered when reverse charge is off
updateVatRate(text) ==
  /\ EditorOpen
  /\ "reverseCharge" \in invoice.keys
  /\ ~invoice.reverseCharge.applicable
  /\ handleUpdate([invoice EXCEPT !.vatRate = ParseFloatOrZero(text),
                                  !.keys = @ \cup {"vatRate"}])
  /\ EditorFrame

\* CompanyInfoForm: updateField('name', v)
updateCompany(v) ==
  /\ EditorOpen
  /\ handleUpdate([invoice EXCEPT !.company = v,
                                  !.keys = @ \cup {"company"}])
  /\ EditorFrame

\* ClientInfoForm: updateField('name', v)
updateClient(v) ==
  /\ EditorOpen
  /\ handleUpdate([invoice EXCEPT !.client = v, !.keys = @ \cup {"client"}])
  /\ EditorFrame

\* PaymentInfoForm: updateField('bankName', v)
updatePayment(v) ==
  /\ EditorOpen
  /\ handleUpdate([invoice EXCEPT !.payment = v,
                                  !.keys = @ \cup {"payment"}])
  /\ EditorFrame

\* InvoiceDetailsForm: updateDetailField('invoiceDate', v)
updateDetailField(v) ==
  /\ EditorOpen
  /\ handleUpdate([invoice EXCEPT !.details.invoiceDate = v,
                                  !.keys = @ \cup {"details"}])
  /\ EditorFrame

----------------------------------------------------------------------------
(* App.tsx: navigation, templates                                          *)

Views == {"editor", "templates", "logs"}
TemplateNames == {"Monthly"}
RenameInputs == {"Renamed"}

\* setView(v); the TemplateManager loads the stored templates when it mounts
\* and loses its state when it unmounts
SetView(v) ==
  /\ Idle
  /\ v # view
  /\ view' = v
  /\ tmTemplates' = IF v = "templates" THEN loadTemplates(lsTemplates)
                    ELSE <<>>
  /\ UNCHANGED <<envVars, storeVars, started, invoice, savePending, calls>>
  /\ FrameCalc

\* handleSaveAsTemplate, with the name the prompt returns
handleSaveAsTemplate(name) ==
  /\ EditorOpen
  /\ Len(loadTemplates(lsTemplates)) < MaxTemplates
  /\ lsTemplates' =
       SetItem(lsTemplates,
               saveTemplate(lsTemplates,
                            Template(NumberToString(now), name,
                                     ContentOf(invoice), now, now)))
  /\ UNCHANGED <<envVars, lsInvoice, lsCounter, appVars, calls>>
  /\ FrameCalc

\* a mutation of LoadShell: the number of the invoice on screen is kept
LoadShellKeepNumber(template, number) ==
  InvoiceShell(template.invoice, now, invoice.details.invoiceNumber)

\* the shell handleLoadTemplate hands to recalculateInvoice
LoadShell(template, number) == InvoiceShell(template.invoice, now, number)

\* a mutation of handleLoadTemplateWith: the derived invoice is written back
\* into the template it came from
handleLoadTemplateWithWriteBack(i, g) ==
  /\ Idle
  /\ view = "templates"
  /\ CanIssue
  /\ i \in 1..Len(tmTemplates)
  /\ ~RecalculateThrows(LoadShell(tmTemplates[i], g.number))
  /\ lsCounter' = g.counter
  /\ calls' = calls + 1
  /\ invoice' = recalculateInvoice(LoadShell(tmTemplates[i], g.number))
  /\ lsTemplates' = saveTemplate(lsTemplates,
                                 [tmTemplates[i] EXCEPT !.invoice = invoice'])
  /\ view' = "editor"
  /\ savePending' = TRUE
  /\ tmTemplates' = <<>>
  /\ UNCHANGED <<envVars, lsInvoice, started>>

\* handleLoadTemplate(template), reached from card i of the TemplateManager,
\* g being what generateInvoiceNumber gives it: the number is generated while
\* the shell is built, before recalculateInvoice can throw
handleLoadTemplateWith(i, g) ==
  /\ Idle
  /\ view = "templates"
  /\ CanIssue
  /\ i \in 1..Len(tmTemplates)
  /\ lsCounter' = SetItem(lsCounter, g.counter)
  /\ calls' = IF setItemThrows THEN calls ELSE calls + 1
  /\ IF setItemThrows
        \/ RecalculateThrows(LoadShell(tmTemplates[i], g.number))
       THEN UNCHANGED <<invoice, view, savePending, tmTemplates>>
       ELSE /\ invoice' = recalculateInvoice(
                            LoadShell(tmTemplates[i], g.number))
            /\ view' = "editor"
            /\ savePending' = TRUE
            /\ tmTemplates' = <<>>
  /\ UNCHANGED <<envVars, lsTemplates, lsInvoice, started>>

handleLoadTemplate(i) == handleLoadTemplateWith(i, Issue) /\ FrameCalc


----------------------------------------------------------------------------
(* components/TemplateManager.tsx, shown while view = "templates"          *)

ManagerOpen == Idle /\ view = "templates"

ManagerFrame ==
  /\ UNCHANGED <<envVars, lsInvoice, lsCounter, started, invoice, view,
                 savePending, calls>>
  /\ FrameCalc

\* handleSaveTemplate(template): saveTemplate, then loadAllTemplates
handleSaveTemplate(template) ==
  /\ lsTemplates' = SetItem(lsTemplates, saveTemplate(lsTemplates, template))
  /\ Len(lsTemplates'.v) <= MaxTemplates
  /\ tmTemplates' = IF setItemThrows THEN tmTemplates
                    ELSE loadTemplates(lsTemplates')

\* TemplateDialog.handleSubmit with no template: "Create Template"
createTemplate(name) ==
  /\ ManagerOpen
  /\ handleSaveTemplate(Template(NumberToString(now), name,
                                 ContentOf(invoice), now, now))
  /\ ManagerFrame

\* TemplateDialog.handleSubmit with the template being edited
editTemplate(i, name) ==
  /\ ManagerOpen
  /\ i \in 1..Len(tmTemplates)
  /\ handleSaveTemplate(Template(tmTemplates[i].id, name,
                                 tmTemplates[i].invoice,
                                 tmTemplates[i].createdAt, now))
  /\ ManagerFrame

\* handleDeleteTemplate(id), confirmed: deleteTemplate, then loadAllTemplates
handleDeleteTemplate(i) ==
  /\ ManagerOpen
  /\ i \in 1..Len(tmTemplates)
  /\ lsTemplates' =
       SetItem(lsTemplates, deleteTemplate(lsTemplates, tmTemplates[i].id))
  /\ tmTemplates' = IF setItemThrows THEN tmTemplates
                    ELSE loadTemplates(lsTemplates')
  /\ ManagerFrame

handleDuplicateTemplate(i) ==
  /\ ManagerOpen
  /\ i \in 1..Len(tmTemplates)
  /\ handleSaveTemplate(Template(NumberToString(now),
                                 tmTemplates[i].name \o " (Copy)",
                                 tmTemplates[i].invoice, now, now))
  /\ ManagerFrame

----------------------------------------------------------------------------
(* Backup documents, utils/storage.ts export/import, clearAllData          *)

\* a template whose line item carries an amount that is not its product
StaleTemplate ==
  Template(<<"t", "p", "l">>, "Imported",
           Partial(ContentKeys, <<>>, "Backup company", "Backup client",
                   <<ServiceItem(<<"1">>, "Consulting Services", Num(2),
                                 Num(10000), Num(15000))>>,
                   "Backup bank", FALSE, Num(20)),
           0, 0)

\* a template whose content carries an `id` of its own
IdTemplate ==
  Template(<<"t", "i", "d">>, "Imported",
           Partial(ContentKeys \cup {"id"}, <<"i", "n", "v">>,
                   "Backup company", "Backup client",
                   <<ServiceItem(<<"1">>, "Consulting Services", Num(1),
                                 Num(10000), Num(10000))>>,
                   "Backup bank", TRUE, Num(0)),
           0, 0)

\* a template with `invoice: {}`
EmptyTemplate ==
  Template(<<"t", "e", "m">>, "Imported",
           Partial({}, <<>>, "", "", <<>>, "", FALSE, Undef), 0, 0)

\* an invoice whose aggregates do not follow from its line items
StaleInvoice ==
  [InvoiceShell(Partial(ContentKeys, <<>>, "Backup company", "Backup client",
                        <<ServiceItem(<<"1">>, "Consulting Services", Num(2),
                                      Num(10000), Num(20000))>>,
                        "Backup bank", FALSE, Num(20)),
                StartTime, <<"B", "-", "1">>)
     EXCEPT !.subtotal = Num(20000), !.total = Num(24000)]

Document(valid, keys, templates, currentInvoice, lastInvoiceNumber) ==
  [valid |-> valid, keys |-> keys, templates |-> templates,
   currentInvoice |-> currentInvoice, lastInvoiceNumber |-> lastInvoiceNumber,
   nulls |-> {}]

\* a full backup whose lastInvoiceNumber is null
NullCounterDocument ==
  [Document(TRUE, {"templates", "currentInvoice", "lastInvoiceNumber"},
            <<IdTemplate>>, StaleInvoice, 0)
     EXCEPT !.nulls = {"lastInvoiceNumber"}]

\* the files the user may pick: not JSON at all; a full backup; a counter
\* alone; templates alone; a backup with a null counter
ImportDocuments ==
  { Document(FALSE, {}, <<>>, NoInvoice, 0),
    Document(TRUE, {"templates", "currentInvoice", "lastInvoiceNumber"},
             <<StaleTemplate>>, StaleInvoice, 98),
    Document(TRUE, {"lastInvoiceNumber"}, <<>>, NoInvoice, 8),
    Document(TRUE, {"templates"}, <<IdTemplate>>, NoInvoice, 0),
    Document(TRUE, {"templates"}, <<EmptyTemplate>>, NoInvoice, 0),
    NullCounterDocument }

\* importData(jsonString): what it leaves in localStorage, and whether it
\* throws 'Invalid JSON data'
\* a mutation of importData: a key the document lacks is removed from storage
importDataReplaceAll(doc, templates, current, counter) ==
  IF ~doc.valid
    THEN [throws |-> TRUE, templates |-> templates, current |-> current,
          counter |-> counter]
    ELSE [throws |-> "lastInvoiceNumber" \in doc.nulls,
          templates |-> IF "templates" \in doc.keys \ doc.nulls
                          THEN Stored(JsonTemplates(doc.templates))
                          ELSE Absent,
          current |-> IF "currentInvoice" \in doc.keys \ doc.nulls
                        THEN saveCurrentInvoice(doc.currentInvoice)
                        ELSE current,
          counter |-> IF "lastInvoiceNumber" \in doc.keys \ doc.nulls
                        THEN saveLastInvoiceNumber(doc.lastInvoiceNumber)
                        ELSE counter]

\* JSON.parse throws on a file that is not JSON; `if (data.templates)` and
\* `if (data.currentInvoice)` skip a null; `data.lastInvoiceNumber !==
\* undefined` lets a null through to saveLastInvoiceNumber, where
\* number.toString() throws after the two writes before it; a setItem that
\* throws ends the import at the first key it would write
importData(doc, templates, current, counter) ==
  IF ~doc.valid
    THEN [throws |-> TRUE, templates |-> templates, current |-> current,
          counter |-> counter]
    ELSE [throws |-> \/ "lastInvoiceNumber" \in doc.nulls
                     \/ setItemThrows /\ doc.keys \ doc.nulls # {},
          templates |-> IF "templates" \in doc.keys \ doc.nulls
                          THEN SetItem(templates,
                                       Stored(JsonTemplates(doc.templates)))
                          ELSE templates,
          current |-> IF "currentInvoice" \in doc.keys \ doc.nulls
                        THEN SetItem(current,
                                     saveCurrentInvoice(doc.currentInvoice))
                        ELSE current,
          counter |-> IF "lastInvoiceNumber" \in doc.keys \ doc.nulls
                        THEN SetItem(counter,
                                     saveLastInvoiceNumber(
                                       doc.lastInvoiceNumber))
                        ELSE counter]

\* handleImportData, with the document the user picks: importData, then
\* setInvoice(loadCurrentInvoice()) when there is a stored invoice
handleImportData(doc) ==
  /\ Idle
  /\ LET r == importData(doc, lsTemplates, lsInvoice, lsCounter)
     IN /\ lsTemplates' = r.templates
        /\ lsInvoice' = r.current
        /\ lsCounter' = r.counter
        /\ IF ~r.throws /\ r.current.present
             THEN /\ invoice' = r.current.v
                  /\ savePending' = TRUE
             ELSE UNCHANGED <<invoice, savePending>>
  /\ UNCHANGED <<envVars, started, view, tmTemplates, calls>>
  /\ FrameCalc

\* exportData(): the document handleExportData offers for download
\* a mutation of exportData: the counter is left out of the document
exportDataNoCounter ==
  [Document(TRUE, {"templates", "currentInvoice"},
            loadTemplates(lsTemplates),
            IF lsInvoice.present THEN lsInvoice.v ELSE NoInvoice,
            0)
     EXCEPT !.nulls = IF lsInvoice.present THEN {} ELSE {"currentInvoice"}]

\* loadCurrentInvoice() is null when nothing is stored: the document then
\* carries currentInvoice: null
exportData ==
  [Document(TRUE, {"templates", "currentInvoice", "lastInvoiceNumber"},
            loadTemplates(lsTemplates),
            IF lsInvoice.present THEN lsInvoice.v ELSE NoInvoice,
            getLastInvoiceNumber(lsCounter))
     EXCEPT !.nulls = IF lsInvoice.present THEN {} ELSE {"currentInvoice"}]

\* no backup file has been kept
NoDownload ==
  [doc |-> Document(FALSE, {}, <<>>, NoInvoice, 0),
   from |-> <<Absent, Absent, Absent>>]

\* handleExportData: nothing is written
handleExportData ==
  /\ Idle
  /\ exportData.valid
  /\ UNCHANGED <<envVars, storeVars, appVars, calls>>
  /\ FrameCalc

\* handleExportData, and the user keeps the downloaded file; `from` records
\* the stored items the document was made from
keepExportedData ==
  /\ Idle
  /\ download' = [doc |-> exportData,
                  from |-> <<lsTemplates, lsInvoice, lsCounter>>]
  /\ UNCHANGED <<envVars, storeVars, appVars, calls>>
  /\ UNCHANGED <<calcVars, reqVars, logVars, pdfVars>>

\* handleImportData with the file kept from an export
importKeptData ==
  /\ download.doc.valid
  /\ handleImportData(download.doc)

\* clearAllData(): every key of the application is removed
clearAllData ==
  /\ lsTemplates.present \/ lsInvoice.present \/ lsCounter.present
  /\ lsTemplates' = Absent
  /\ lsInvoice' = Absent
  /\ lsCounter' = Absent
  /\ UNCHANGED <<envVars, appVars, calls>>
  /\ FrameCalc

----------------------------------------------------------------------------
(* utils/pdfGenerator.ts                                                   *)

PDF_CONFIG == [widthPx |-> 794, heightPx |-> 1123]

\* a value of element.style.width / element.style.minHeight: '' or '<n>px'
NoStyle == [set |-> FALSE, px |-> 0]
Px(n) == [set |-> TRUE, px |-> n]

\* the preview element is rendered with style={{ maxHeight: '85vh' }} only
OriginalStyle == [width |-> NoStyle, minHeight |-> NoStyle]

MaxGenerations == 3
ElementIds == {"invoice-preview", "no-such-element"}

\* document.getElementById: the editor view holds the preview element
ElementFound(elementId) == elementId = "invoice-preview"

\* a call of generateInvoicePDF: not made yet, waiting in html2canvas with
\* the styles it saved, or finished ("saved", "failed", "not-found")
NotCalled == [pc |-> "idle", originalWidth |-> NoStyle, originalMinHeight |-> NoStyle]

InProgress(g) == generations[g].pc = "rendering"

PdfFrame ==
  UNCHANGED <<calcVars, envVars, storeVars, appVars, logVars, fileVars, reqVars,
              histVars>>

\* generateInvoicePDF up to its await: look the element up, throw when it is
\* missing, save the two styles and set the A4 dimensions
generateInvoicePDFBegin(g, elementId) ==
  /\ generations[g].pc = "idle"
  /\ IF ~ElementFound(elementId)
     THEN /\ generations' = [generations EXCEPT ![g].pc = "not-found"]
          /\ UNCHANGED style
     ELSE /\ generations' = [generations EXCEPT ![g] =
               [pc |-> "rendering",
                originalWidth |-> style.width,
                originalMinHeight |-> style.minHeight]]
          /\ style' = [width |-> Px(PDF_CONFIG.widthPx),
                       minHeight |-> Px(PDF_CONFIG.heightPx)]
  /\ PdfFrame

\* generateInvoicePDF after its await: html2canvas resolved (the PDF is
\* saved) or rejected; the finally block restores the saved styles
generateInvoicePDFEnd(g, ok) ==
  /\ generations[g].pc = "rendering"
  /\ style' = [width |-> generations[g].originalWidth,
               minHeight |-> generations[g].originalMinHeight]
  /\ generations' = [generations EXCEPT ![g].pc = IF ok THEN "saved" ELSE "failed"]
  /\ PdfFrame

----------------------------------------------------------------------------
(* Specifications                                                          *)

\* a first visit: nothing is stored yet
AppInit ==
  /\ now = StartTime
  /\ setItemThrows = FALSE
  /\ lsTemplates = Absent
  /\ lsInvoice = Absent
  /\ lsCounter = Absent
  /\ started = FALSE
  /\ invoice = NoInvoice
  /\ view = "editor"
  /\ savePending = FALSE
  /\ tmTemplates = <<>>
  /\ lsLogs = Absent
  /\ lsSettings = Absent
  /\ enabled = TRUE
  /\ minLevel = "DEBUG"
  /\ logCount = 0
  /\ style = [width |-> NoStyle, minHeight |-> NoStyle]
  /\ generations = [g \in 1..MaxGenerations |-> NotCalled]
  /\ download = NoDownload
  /\ calls = 0
  /\ steps = 0
  /\ issued = <<>>
  /\ derived = <<>>

CalcOff ==
  /\ cx = CalcIdle
  /\ cy = CalcIdle
  /\ cz = CalcIdle
  /\ cpc = "input"

ReqOff ==
  /\ reqPc = <<>>
  /\ reqLast = <<>>

Init ==
  /\ AppInit
  /\ tz = 0
  /\ CalcOff
  /\ ReqOff

\* one operation of a session of at most MaxSteps operations
Step(A) ==
  /\ steps < MaxSteps
  /\ A
  /\ steps' = steps + 1
  /\ UNCHANGED <<issued, derived>>

Next ==
  \/ Step(Tick)
  \/ Step(Start)
  \/ Step(Reload)
  \/ Step(AutoSave)
  \/ Step(handleGenerateNewNumber)
  \/ Step(addService)
  \/ \E i \in 1..MaxServices, text \in QuantityInputs :
       Step(updateQuantity(i, text))
  \/ \E i \in 1..MaxServices, text \in PriceInputs :
       Step(updateUnitPrice(i, text))
  \/ \E i \in 1..MaxServices : Step(removeService(i))
  \/ Step(updateReverseChargeField)
  \/ \E text \in RateInputs : Step(updateVatRate(text))
  \/ \E v \in CompanyInputs : Step(updateCompany(v))
  \/ \E v \in ClientInputs : Step(updateClient(v))
  \/ \E v \in PaymentInputs : Step(updatePayment(v))
  \/ \E v \in DateInputs : Step(updateDetailField(v))
  \/ \E v \in Views : Step(SetView(v))
  \/ \E name \in TemplateNames : Step(handleSaveAsTemplate(name))
  \/ \E i \in 1..MaxTemplates : Step(handleLoadTemplate(i))
  \/ \E name \in TemplateNames : Step(createTemplate(name))
  \/ \E i \in 1..MaxTemplates, name \in RenameInputs :
       Step(editTemplate(i, name))
  \/ \E i \in 1..MaxTemplates : Step(handleDeleteTemplate(i))
  \/ \E i \in 1..MaxTemplates : Step(handleDuplicateTemplate(i))
  \/ \E doc \in ImportDocuments : Step(handleImportData(doc))
  \/ Step(handleExportData)
  \/ Step(clearAllData)

Spec == Init /\ [][Next]_vars

\* the calculation engine applied to every invoice of the Calc sets
InitCalc ==
  /\ \E items \in CalcItemSeqs, applicable \in BOOLEAN,
        vatRate \in CalcRates, stale \in CalcStaleTotals :
       cx = CalcInvoice(items, applicable, vatRate, stale)
  /\ cy = cx
  /\ cz = cx
  /\ cpc = "input"
  /\ AppInit
  /\ tz = 0
  /\ ReqOff

AppOff == UNCHANGED <<envVars, storeVars, appVars, logVars, pdfVars, fileVars, reqVars, histVars>>

NextCalc ==
  \/ CalcOnce /\ AppOff
  \/ CalcTwice /\ AppOff

SpecCalc == InitCalc /\ [][NextCalc]_vars

----------------------------------------------------------------------------
(* Claims about the calculation engine (SpecCalc)                          *)

\* the arithmetic the claims expect, over the integers; a non-numeric
\* operand gives not-a-number
Times(a, b) ==
  IF a.k = "num" /\ b.k = "num" THEN [k |-> "num", v |-> a.v * b.v]
  ELSE [k |-> "nan", v |-> 0]

Plus(a, b) ==
  IF a.k = "num" /\ b.k = "num" THEN [k |-> "num", v |-> a.v + b.v]
  ELSE [k |-> "nan", v |-> 0]

RECURSIVE SumOfAmounts(_)
SumOfAmounts(services) ==
  IF services = <<>> THEN [k |-> "num", v |-> 0]
  ELSE Plus(services[Len(services)].amount,
            SumOfAmounts(SubSeq(services, 1, Len(services) - 1)))

AllNumeric(inv) ==
  \A i \in 1..Len(inv.services) :
    inv.services[i].quantity.k = "num" /\ inv.services[i].unitPrice.k = "num"

\* C1: in recalculateInvoice(x) every line item's amount is quantity *
\* unitPrice, subtotal is the sum of the line-item amounts and total is
\* subtotal + vatAmount; the items themselves are those of x.
C1_DerivedFields ==
  cpc # "input" =>
    /\ Len(cy.services) = Len(cx.services)
    /\ \A i \in 1..Len(cy.services) :
         /\ cy.services[i].quantity = cx.services[i].quantity
         /\ cy.services[i].unitPrice = cx.services[i].unitPrice
         /\ cy.services[i].amount =
              Times(cx.services[i].quantity, cx.services[i].unitPrice)
    /\ cy.subtotal = SumOfAmounts(cy.services)
    /\ cy.total = Plus(cy.subtotal, cy.vatAmount)

\* C1 witness: two numeric items whose stored amounts and totals were stale,
\* VAT charged
C1_Witness ==
  /\ cpc = "once"
  /\ Len(cx.services) = 2
  /\ AllNumeric(cx)
  /\ cx.services[1].amount # cy.services[1].amount
  /\ cx.subtotal # cy.subtotal
  /\ cy.vatAmount.k = "num" /\ cy.vatAmount.v > 0
  /\ cy.total.v = cy.subtotal.v + cy.vatAmount.v

\* the scenario of C2: one item, quantity 2, unit price 100.00, rate 20
IsScenario(inv) ==
  /\ Len(inv.services) = 1
  /\ inv.services[1].quantity = [k |-> "num", v |-> 2]
  /\ inv.services[1].unitPrice = [k |-> "num", v |-> 10000]
  /\ inv.vatRate = [k |-> "num", v |-> 20]

\* C2: under reverse charge vatAmount is 0 whatever vatRate is, and vatRate
\* stays as it was; otherwise vatAmount is subtotal * vatRate / 100.  One
\* item 2 x 100.00 at rate 20 gives amount 200.00, subtotal 200.00, VAT 40.00
\* and total 240.00; under reverse charge VAT 0 and total 200.00.
C2_ReverseCharge ==
  cpc # "input" =>
    /\ cy.vatRate = cx.vatRate
    /\ cy.reverseCharge = cx.reverseCharge
    /\ cx.reverseCharge.applicable => cy.vatAmount = [k |-> "num", v |-> 0]
    /\ (~cx.reverseCharge.applicable /\ AllNumeric(cx)) =>
         /\ cy.vatAmount.k = "num"
         /\ cy.vatAmount.v * 100 = cy.subtotal.v * cx.vatRate.v
    /\ (~cx.reverseCharge.applicable /\ ~AllNumeric(cx)) =>
         cy.vatAmount.k = "nan"
    /\ IsScenario(cx) =>
         /\ cy.services[1].amount.v = 20000
         /\ cy.subtotal.v = 20000
         /\ cy.vatAmount.v = IF cx.reverseCharge.applicable THEN 0 ELSE 4000
         /\ cy.total.v = IF cx.reverseCharge.applicable THEN 20000 ELSE 24000

\* C2 witness: the scenario under reverse charge, with its rate of 20 kept
C2_Witness ==
  /\ cpc = "once"
  /\ IsScenario(cx)
  /\ cx.reverseCharge.applicable
  /\ cy.vatRate.v = 20
  /\ cy.vatAmount.v = 0
  /\ cy.total.v = 20000

\* C7: recalculateInvoice applied to its own output changes no line-item
\* amount, subtotal, vatAmount or total (nor anything else).
C7_Idempotent ==
  cpc = "twice" =>
    /\ \A i \in 1..Len(cy.services) :
         cz.services[i].amount = cy.services[i].amount
    /\ cz.subtotal = cy.subtotal
    /\ cz.vatAmount = cy.vatAmount
    /\ cz.total = cy.total
    /\ cz = cy

\* C7 witness: the first application changed the invoice, the second ran
C7_Witness ==
  /\ cpc = "twice"
  /\ cy # cx
  /\ Len(cy.services) = 2
  /\ cy.subtotal.k = "num" /\ cy.subtotal.v > 0
  /\ cy.vatAmount.k = "num" /\ cy.vatAmount.v > 0

\* C8: for an invoice with a non-numeric quantity or unitPrice, no amount,
\* subtotal, vatAmount or total of recalculateInvoice's result is NaN.
C8_NoNaN ==
  (cpc # "input" /\ ~AllNumeric(cx)) =>
    /\ \A i \in 1..Len(cy.services) : cy.services[i].amount.k = "num"
    /\ cy.subtotal.k = "num"
    /\ cy.vatAmount.k = "num"
    /\ cy.total.k = "num"

----------------------------------------------------------------------------
(* Numbering: SpecNumbering                                                *)

\* an operation, and the record of the number it was given if it asked for one
Numbered(A) ==
  /\ A
  /\ issued' = IF calls' = calls + 1 THEN Append(issued, Issue.number)
               ELSE issued
  /\ UNCHANGED <<steps, derived>>

\* an import or a clear: the record of issued numbers starts afresh
Restarted(A) ==
  /\ A
  /\ issued' = <<>>
  /\ UNCHANGED <<steps, derived>>

\* the backups that matter to numbering: no JSON, a full backup, a counter
\* alone, and a template whose loading fails
NumberingDocuments ==
  {doc \in ImportDocuments : doc.templates # <<IdTemplate>>}

InitNumbering ==
  /\ AppInit
  /\ tz \in TzOffsets
  /\ CalcOff
  /\ ReqOff

NextNumbering ==
  \/ Numbered(Tick)
  \/ Numbered(Start)
  \/ Numbered(Reload)
  \/ Numbered(AutoSave)
  \/ Numbered(handleGenerateNewNumber)
  \/ \E v \in {"editor", "templates"} : Numbered(SetView(v))
  \/ \E i \in 1..MaxTemplates : Numbered(handleLoadTemplate(i))
  \/ \E doc \in NumberingDocuments : Restarted(handleImportData(doc))
  \/ Restarted(clearAllData)

SpecNumbering == InitNumbering /\ [][NextNumbering]_vars

----------------------------------------------------------------------------
(* Claims about numbering                                                  *)

\* the number the stored counter stands for: 0 when the key is absent
CounterValue(ls) ==
  IF ls.present
    THEN CHOOSE n \in 0..(100 + MaxIssued) : ls.v = NumberToString(n)
    ELSE 0

\* the local date the claims expect, read off the calendar
ExpectedDate(t, offset) ==
  LET day == (t + offset) \div DayLength
  IN IF day = 20405 THEN <<"2", "0", "2", "5", "-", "1", "1", "-", "1", "3">>
     ELSE IF day = 20406
            THEN <<"2", "0", "2", "5", "-", "1", "1", "-", "1", "4">>
     ELSE IF day = 20407
            THEN <<"2", "0", "2", "5", "-", "1", "1", "-", "1", "5">>
     ELSE <<"2", "0", "2", "5", "-", "1", "1", "-", "1", "6">>

\* NN: two digits at least
TwoDigits(n) ==
  IF n < 10 THEN <<"0">> \o NumberToString(n) ELSE NumberToString(n)

ExpectedNumber(t, offset, n) ==
  <<"C", "O", "R", "E", "-">> \o ExpectedDate(t, offset) \o <<"-">>
    \o TwoDigits(n)

Last(seq) == seq[Len(seq)]

\* a step in which generateInvoiceNumber was called
NumberingCall == calls' = calls + 1

C3_Call ==
  NumberingCall =>
    /\ lsCounter'.present
    /\ lsCounter'.v = NumberToString(CounterValue(lsCounter) + 1)
    /\ issued' = Append(issued, ExpectedNumber(now, tz,
                                               CounterValue(lsCounter) + 1))
    /\ invoice' # invoice =>
         invoice'.details.invoiceNumber = Last(issued')
    /\ (~lsCounter.present /\ now = StartTime /\ tz = 0) =>
         Last(issued') = <<"C", "O", "R", "E", "-", "2", "0", "2", "5", "-",
                           "1", "1", "-", "1", "3", "-", "0", "1">>
    /\ (lsCounter = Stored(<<"1">>) /\ now = StartTime /\ tz = 0) =>
         Last(issued') = <<"C", "O", "R", "E", "-", "2", "0", "2", "5", "-",
                           "1", "1", "-", "1", "3", "-", "0", "2">>
    /\ lsCounter = Stored(<<"9", "9">>) =>
         /\ lsCounter' = Stored(<<"1", "0", "0">>)
         /\ SubSeq(Last(issued'), 17, Len(Last(issued'))) = <<"1", "0", "0">>

\* C3: generateInvoiceNumber reads the stored counter (0 when the key is
\* absent), stores counter + 1 and returns CORE-YYYY-MM-DD-NN with NN the new
\* counter padded to two digits: 01 and then 02 from a counter of 0 on
\* 2025-11-13, and 100 after 99.
C3_Numbering == [][C3_Call]_vars

\* C3 witness: a call made with the counter at 99 returned ...-100
C3_Witness ==
  /\ issued # <<>>
  /\ lsCounter = Stored(<<"1", "0", "0">>)
  /\ SubSeq(Last(issued), 17, Len(Last(issued))) = <<"1", "0", "0">>
  /\ invoice.details.invoiceNumber = Last(issued)

\* the sequence number embedded in CORE-YYYY-MM-DD-NN
RECURSIVE DecimalValue(_)
DecimalValue(digits) ==
  IF digits = <<>> THEN 0
  ELSE 10 * DecimalValue(SubSeq(digits, 1, Len(digits) - 1))
         + (CHOOSE d \in 0..9 : NumberToString(d) = <<Last(digits)>>)

Embedded(number) == DecimalValue(SubSeq(number, 17, Len(number)))

\* C4: the numbers returned by successive calls, with no import and no clear
\* between them, are pairwise distinct and their sequence numbers increase
\* strictly from one call to the next.
C4_Monotonic ==
  \A i \in 1..Len(issued) : \A j \in 1..Len(issued) :
    i < j => /\ issued[i] # issued[j]
             /\ Embedded(issued[i]) < Embedded(issued[j])

\* C4 witness: three calls, the first and the last on different days
C4_Witness ==
  /\ Len(issued) = 3
  /\ SubSeq(issued[1], 1, 16) # SubSeq(issued[3], 1, 16)
  /\ Embedded(issued[1]) = 1
  /\ Embedded(issued[3]) = 3

\* the operations that call generateInvoiceNumber
NumberingOperation ==
  \/ Start /\ ~lsInvoice.present
  \/ handleGenerateNewNumber
  \/ \E i \in 1..MaxTemplates : handleLoadTemplate(i)

\* template save / delete / duplicate, invoice edits, auto-save, export,
\* and the rest of the operations that are neither a numbering call nor an
\* import nor a clear
OtherOperation ==
  \/ \E name \in TemplateNames : handleSaveAsTemplate(name)
  \/ \E name \in TemplateNames : createTemplate(name)
  \/ \E i \in 1..MaxTemplates, name \in RenameInputs : editTemplate(i, name)
  \/ \E i \in 1..MaxTemplates : handleDeleteTemplate(i)
  \/ \E i \in 1..MaxTemplates : handleDuplicateTemplate(i)
  \/ addService
  \/ \E i \in 1..MaxServices, text \in QuantityInputs : updateQuantity(i, text)
  \/ \E i \in 1..MaxServices, text \in PriceInputs : updateUnitPrice(i, text)
  \/ \E i \in 1..MaxServices : removeService(i)
  \/ updateReverseChargeField
  \/ \E text \in RateInputs : updateVatRate(text)
  \/ \E v \in CompanyInputs : updateCompany(v)
  \/ \E v \in ClientInputs : updateClient(v)
  \/ \E v \in PaymentInputs : updatePayment(v)
  \/ \E v \in DateInputs : updateDetailField(v)
  \/ AutoSave
  \/ handleExportData
  \/ \E v \in Views : SetView(v)
  \/ Start /\ lsInvoice.present
  \/ Reload
  \/ Tick

ImportOrClear ==
  \/ \E doc \in ImportDocuments : handleImportData(doc)
  \/ clearAllData

\* a step that changes the counter is none of the other operations, and
\* raises the counter unless it is an import or a clear
C5_Step ==
  /\ NumberingOperation =>
       CounterValue(lsCounter') = CounterValue(lsCounter) + 1
  /\ lsCounter' # lsCounter =>
       /\ ~OtherOperation
       /\ ~ImportOrClear =>
            CounterValue(lsCounter') >= CounterValue(lsCounter)

\* C5: the stored counter never decreases under an operation other than
\* clearAllData and importData: a numbering call raises it by exactly one;
\* template save, delete and duplicate, invoice edits, auto-save and export
\* leave it as it is.
C5_CounterMonotone == [][C5_Step]_vars

\* C5 witness: two numbering calls, an edit, an auto-save and a template save
\* have happened and the counter is 2
C5_Witness ==
  /\ calls = 2
  /\ lsCounter = Stored(<<"2">>)
  /\ Len(invoice.services) = 2
  /\ lsInvoice.present
  /\ loadTemplates(lsTemplates) # <<>>

----------------------------------------------------------------------------
(* Numbering requests, one line of generateInvoiceNumber at a time:        *)
(* SpecSerial                                                              *)

MaxRequests == 2

Requests == 1..MaxRequests

NoRequest == [lastNumber |-> 0, card |-> 0]

\* a mutation of Dispatchable: a handler may start while another is running
DispatchableAlways == TRUE

\* a handler runs to completion: generateInvoiceNumber has no await between
\* getLastInvoiceNumber() and saveLastInvoiceNumber(), and the page has one
\* thread, so nothing is dispatched while a request is between the two
Dispatchable == \A r \in Requests : reqPc[r] = "idle"

\* `const lastNumber = getLastInvoiceNumber()`, reached by request r from the
\* useState initializer ("startup"), handleGenerateNewNumber ("renumber") or
\* handleLoadTemplate of card `card` ("load")
ReadCounter(r, kind, card) ==
  /\ Dispatchable
  /\ reqPc[r] = "idle"
  /\ CanIssue
  /\ CASE kind = "startup" -> ~started /\ ~lsInvoice.present
       [] kind = "renumber" -> Idle /\ view = "editor"
       [] kind = "load" ->
            Idle /\ view = "templates" /\ card \in 1..Len(tmTemplates)
  /\ reqPc' = [reqPc EXCEPT ![r] = kind]
  /\ reqLast' = [reqLast EXCEPT
                   ![r] = [lastNumber |-> getLastInvoiceNumber(lsCounter),
                           card |-> card]]
  /\ UNCHANGED <<calcVars, envVars, storeVars, appVars, logVars, pdfVars, fileVars,
               histVars>>

\* the rest of generateInvoiceNumber and of the handler that called it
Complete(r) ==
  /\ reqPc[r] # "idle"
  /\ LET g == NumberAfter(reqLast[r].lastNumber, now, tz)
     IN /\ CASE reqPc[r] = "startup" -> StartWith(g)
             [] reqPc[r] = "renumber" -> handleGenerateNewNumberWith(g)
             [] reqPc[r] = "load" ->
                  handleLoadTemplateWith(reqLast[r].card, g)
        /\ issued' = IF calls' = calls + 1 THEN Append(issued, g.number)
                     ELSE issued
  /\ reqPc' = [reqPc EXCEPT ![r] = "idle"]
  /\ reqLast' = [reqLast EXCEPT ![r] = NoRequest]
  /\ UNCHANGED <<calcVars, logVars, pdfVars, fileVars, steps, derived>>

\* an operation that asks for no number
Dispatched(A) ==
  /\ Dispatchable
  /\ A
  /\ UNCHANGED obsVars

InitSerial ==
  /\ AppInit
  /\ tz \in TzOffsets
  /\ CalcOff
  /\ reqPc = [r \in Requests |-> "idle"]
  /\ reqLast = [r \in Requests |-> NoRequest]

NextSerial ==
  \/ \E r \in Requests : ReadCounter(r, "startup", 0)
  \/ \E r \in Requests : ReadCounter(r, "renumber", 0)
  \/ \E r \in Requests, card \in 1..MaxTemplates : ReadCounter(r, "load", card)
  \/ \E r \in Requests : Complete(r)
  \/ Tick /\ UNCHANGED obsVars
  \/ Dispatched(Start /\ lsInvoice.present)
  \/ Dispatched(Reload)
  \/ Dispatched(AutoSave)
  \/ \E v \in {"editor", "templates"} : Dispatched(SetView(v))
  \/ \E doc \in NumberingDocuments :
       Dispatchable /\ Restarted(handleImportData(doc))

SpecSerial == InitSerial /\ [][NextSerial]_vars

\* C6: numbering requests are serialized: no request reads the counter while
\* another is between its read and its write, the value a request has read is
\* still the stored one when it writes, and no sequence number is issued
\* twice.
C6_Serialized ==
  /\ \A r1 \in Requests : \A r2 \in Requests :
       (reqPc[r1] # "idle" /\ reqPc[r2] # "idle") => r1 = r2
  /\ \A r \in Requests :
       reqPc[r] # "idle" => reqLast[r].lastNumber = CounterValue(lsCounter)
  /\ \A i \in 1..Len(issued) : \A j \in 1..Len(issued) :
       i < j => Embedded(issued[i]) # Embedded(issued[j])

\* C6 witness: two requests have been answered, the second after an import
\* that set the counter to 98, and a template load has read the counter
C6_Witness ==
  /\ calls = 2
  /\ issued # <<>>
  /\ \E r \in Requests : reqPc[r] = "load" /\ reqLast[r].lastNumber = 99

----------------------------------------------------------------------------
(* Invoices produced from templates: SpecDerive                            *)

\* an operation, and the record of the invoice it produced if it produced
\* one: "seed" by the useState initializer, "load" by handleLoadTemplate of
\* the template tpl
Produced(A, kind, tpl) ==
  /\ A
  /\ derived' = IF calls' = calls + 1 /\ invoice' # invoice
                  THEN Append(derived, [kind |-> kind, tpl |-> tpl,
                                        inv |-> invoice'])
                  ELSE derived
  /\ UNCHANGED <<steps, issued>>

\* the backups that bring templates
TemplateDocuments ==
  {doc \in ImportDocuments : doc.templates # <<>> /\ doc.nulls = {}}

NextDerive ==
  \/ Produced(Tick, "none", NoTemplate)
  \/ Produced(Start, "seed", NoTemplate)
  \/ Produced(AutoSave, "none", NoTemplate)
  \/ \E v \in {"editor", "templates"} :
       Produced(SetView(v), "none", NoTemplate)
  \/ \E name \in TemplateNames :
       Produced(handleSaveAsTemplate(name), "none", NoTemplate)
  \/ \E i \in 1..MaxTemplates :
       /\ i \in 1..Len(tmTemplates)
       /\ Produced(handleLoadTemplate(i), "load", tmTemplates[i])
  \/ \E doc \in TemplateDocuments :
       Produced(handleImportData(doc), "none", NoTemplate)

SpecDerive == Init /\ [][NextDerive]_vars

\* what a template hands over to the invoices derived from it
SameContent(a, b) ==
  /\ a.company = b.company
  /\ a.client = b.client
  /\ a.services = b.services
  /\ a.payment = b.payment
  /\ a.reverseCharge = b.reverseCharge
  /\ a.vatRate = b.vatRate

\* C9: two derivations from the same template give invoices with different
\* id and different invoiceNumber and the same company, client, services,
\* payment, reverseCharge and vatRate; the id of a derived invoice is the id
\* of no other invoice produced in the session.
C9_Derivation ==
  \A i \in 1..Len(derived) : \A j \in 1..Len(derived) :
    /\ (i # j /\ derived[i].kind = "load") =>
         derived[i].inv.id # derived[j].inv.id
    /\ (i < j /\ derived[i].kind = "load" /\ derived[j].kind = "load"
          /\ derived[i].tpl = derived[j].tpl) =>
         /\ derived[i].inv.id # derived[j].inv.id
         /\ derived[i].inv.details.invoiceNumber
              # derived[j].inv.details.invoiceNumber
         /\ SameContent(derived[i].inv, derived[j].inv)

\* C10: the invoice derived from a stored template T has the services of
\* T.invoice, item ids and amounts included, and an id other than T.id.
C10_RoundTrip ==
  \A i \in 1..Len(derived) :
    derived[i].kind = "load" =>
      /\ derived[i].inv.services = derived[i].tpl.invoice.services
      /\ derived[i].inv.id # derived[i].tpl.id

----------------------------------------------------------------------------
(* Claims about template derivation and the template store (Spec)          *)

LoadStep == \E i \in 1..MaxTemplates : handleLoadTemplate(i)

C11_Step ==
  LoadStep =>
    /\ CounterValue(lsCounter') = CounterValue(lsCounter) + 1
    /\ lsCounter' = Stored(NumberToString(CounterValue(lsCounter) + 1))
    /\ invoice' # invoice =>
         /\ invoice'.details.invoiceNumber =
              ExpectedNumber(now, tz, CounterValue(lsCounter) + 1)
         /\ Embedded(invoice'.details.invoiceNumber)
              = CounterValue(lsCounter')

\* C11: a template derivation consumes exactly one counter value: after
\* handleLoadTemplate the stored counter is one greater than before, and the
\* derived invoice's invoiceNumber carries the new value.
C11_OneNumberPerDerivation == [][C11_Step]_vars

\* C11 witness: the invoice on screen was derived from an imported template
\* with the counter at 98 and carries number 99
C11_Witness ==
  /\ started
  /\ view = "editor"
  /\ invoice.client = "Backup client"
  /\ lsCounter = Stored(<<"9", "9">>)
  /\ invoice.details.invoiceNumber = ExpectedNumber(now, tz, 99)

\* the edits of the invoice on screen
EditOperation ==
  \/ addService
  \/ \E i \in 1..MaxServices, text \in QuantityInputs : updateQuantity(i, text)
  \/ \E i \in 1..MaxServices, text \in PriceInputs : updateUnitPrice(i, text)
  \/ \E i \in 1..MaxServices : removeService(i)
  \/ updateReverseChargeField
  \/ \E text \in RateInputs : updateVatRate(text)
  \/ \E v \in CompanyInputs : updateCompany(v)
  \/ \E v \in ClientInputs : updateClient(v)
  \/ \E v \in PaymentInputs : updatePayment(v)
  \/ \E v \in DateInputs : updateDetailField(v)

\* a step that changes the stored templates is neither a derivation, nor an
\* edit, nor an auto-save; a derivation leaves the records the manager holds
\* as they are, or the manager is closed
C12_Step ==
  /\ lsTemplates' # lsTemplates => ~(LoadStep \/ EditOperation \/ AutoSave)
  /\ tmTemplates' # tmTemplates =>
       /\ ~EditOperation
       /\ LoadStep => tmTemplates' = <<>> /\ view' = "editor"

\* C12: template derivation does not change its source: the template record
\* and the stored template list are the same before and after
\* handleLoadTemplate, and later edits of the derived invoice (line items,
\* parties, tax treatment) do not change the stored template.
C12_SourceUntouched == [][C12_Step]_vars

\* C12 witness: an invoice derived from the imported template that carries
\* its own id has been edited, and the stored template is as imported
C12_Witness ==
  /\ view = "editor"
  /\ invoice.id = IdTemplate.invoice.id
  /\ invoice.company = "Edited company"
  /\ lsTemplates = Stored(<<IdTemplate>>)
  /\ IdTemplate.invoice.company = "Backup company"

\* what an upsert of t makes of the stored list
Upserted(t) ==
  LET old == loadTemplates(lsTemplates)
      new == loadTemplates(lsTemplates')
  IN /\ lsTemplates'.present
     /\ IF \E i \in 1..Len(old) : old[i].id = t.id
          THEN /\ Len(new) = Len(old)
               /\ \E i \in 1..Len(old) : old[i].id = t.id /\ new[i] = t
          ELSE /\ Len(new) = Len(old) + 1
               /\ new[Len(new)] = t
     /\ \A j \in 1..Len(old) : old[j].id # t.id => new[j] = old[j]

C13_Step ==
  /\ \A name \in TemplateNames :
       /\ handleSaveAsTemplate(name) =>
            Upserted(Template(NumberToString(now), name, ContentOf(invoice),
                              now, now))
       /\ createTemplate(name) =>
            Upserted(Template(NumberToString(now), name, ContentOf(invoice),
                              now, now))
  /\ \A i \in 1..MaxTemplates :
       /\ \A name \in RenameInputs :
            editTemplate(i, name) =>
              Upserted(Template(tmTemplates[i].id, name,
                                tmTemplates[i].invoice,
                                tmTemplates[i].createdAt, now))
       /\ handleDuplicateTemplate(i) =>
            Upserted(Template(NumberToString(now),
                              tmTemplates[i].name \o " (Copy)",
                              tmTemplates[i].invoice, now, now))

\* C13: saveTemplate(t) is an upsert keyed by id. In every step that calls it
\* (save as template, create, edit, duplicate): when a stored record has
\* t.id, that record is replaced by t and the number of stored templates is
\* unchanged; otherwise t is appended and the number grows by one; every
\* record with a different id is unchanged.
C13_Upsert == [][C13_Step]_vars

\* C13 witness: a store of two templates (two appends) whose first record was
\* then replaced by an edit
C13_Witness ==
  /\ view = "templates"
  /\ lsTemplates.present
  /\ Len(lsTemplates.v) = 2
  /\ lsTemplates.v[1].name = "Renamed"
  /\ lsTemplates.v[2].name = "Monthly"
  /\ lsTemplates.v[1].id # lsTemplates.v[2].id

DuplicateOf(i) ==
  LET T == tmTemplates[i]
      old == loadTemplates(lsTemplates)
      new == loadTemplates(lsTemplates')
  IN /\ Len(new) = Len(old) + 1
     /\ \A j \in 1..Len(old) : new[j] = old[j]
     /\ \E j \in 1..Len(old) : new[j] = T
     /\ \A j \in 1..Len(old) : new[Len(new)].id # old[j].id
     /\ new[Len(new)].name = T.name \o " (Copy)"
     /\ new[Len(new)].createdAt = now
     /\ new[Len(new)].updatedAt = now
     /\ new[Len(new)].invoice = T.invoice

C14_Step ==
  \A i \in 1..MaxTemplates : handleDuplicateTemplate(i) => DuplicateOf(i)

\* C14: duplicating a template T adds exactly one record to the store, with an
\* id different from T's and from every stored id, the name '<T.name> (Copy)',
\* createdAt and updatedAt of the moment and the invoice content of T; T and
\* every other stored record stay as they were.
C14_Duplicate == [][C14_Step]_vars

C15_Step ==
  \A doc \in ImportDocuments :
    (/\ handleImportData(doc)
     /\ importData(doc, lsTemplates, lsInvoice, lsCounter).throws)
      => UNCHANGED <<lsTemplates, lsInvoice, lsCounter>>

\* C15: a rejected import writes nothing. Whenever importData throws, the
\* stored templates, the stored invoice and the stored counter are what they
\* were before the call.
C15_RejectedImport == [][C15_Step]_vars

C16_Step ==
  \A doc \in ImportDocuments :
    handleImportData(doc) =>
      /\ "templates" \notin doc.keys => lsTemplates' = lsTemplates
      /\ "currentInvoice" \notin doc.keys => lsInvoice' = lsInvoice
      /\ "lastInvoiceNumber" \notin doc.keys => lsCounter' = lsCounter
      /\ doc.valid /\ "templates" \in doc.keys \ doc.nulls =>
           /\ lsTemplates'.present
           /\ lsTemplates'.v = doc.templates
      /\ doc.valid /\ "currentInvoice" \in doc.keys \ doc.nulls =>
           /\ lsInvoice'.present
           /\ lsInvoice'.v = doc.currentInvoice
      /\ doc.valid /\ "lastInvoiceNumber" \in doc.keys \ doc.nulls =>
           /\ lsCounter'.present
           /\ lsCounter'.v = NumberToString(doc.lastInvoiceNumber)

\* C16: importData applies only the keys present in the document and replaces
\* each of those wholesale: a document without `templates` leaves the stored
\* template list unchanged, one without `currentInvoice` leaves the stored
\* invoice unchanged, one without `lastInvoiceNumber` leaves the counter
\* unchanged; a key that is present with a value replaces what was stored.
C16_PresentKeysOnly == [][C16_Step]_vars

\* C16 witness: a backup holding only the counter was imported over a store
\* with a template and an invoice, and both are still there
C16_Witness ==
  /\ lsCounter = Stored(<<"8">>)
  /\ lsTemplates.present
  /\ Len(lsTemplates.v) = 1
  /\ lsTemplates.v[1].name = "Monthly"
  /\ lsInvoice.present
  /\ lsInvoice.v.client # "Backup client"

----------------------------------------------------------------------------
(* Editing sessions that start from the default seed: SpecEdit             *)

MaxEdits == 11

\* one operation of an editing session of at most MaxEdits operations
EditStep(A) ==
  /\ steps < MaxEdits
  /\ A
  /\ steps' = steps + 1
  /\ UNCHANGED <<issued, derived>>

\* the operations of the editor, manual renumbering, and saving and loading
\* a template of the session; nothing is imported
NextEdit ==
  \/ EditStep(Start)
  \/ EditStep(Reload)
  \/ EditStep(AutoSave)
  \/ EditStep(handleGenerateNewNumber)
  \/ EditStep(addService)
  \/ \E i \in 1..MaxServices, text \in QuantityInputs :
       EditStep(updateQuantity(i, text))
  \/ \E i \in 1..MaxServices, text \in PriceInputs :
       EditStep(updateUnitPrice(i, text))
  \/ \E i \in 1..MaxServices : EditStep(removeService(i))
  \/ EditStep(updateReverseChargeField)
  \/ \E text \in RateInputs : EditStep(updateVatRate(text))
  \/ \E v \in CompanyInputs : EditStep(updateCompany(v))
  \/ \E v \in ClientInputs : EditStep(updateClient(v))
  \/ \E v \in PaymentInputs : EditStep(updatePayment(v))
  \/ \E v \in DateInputs : EditStep(updateDetailField(v))
  \/ \E v \in {"editor", "templates"} : EditStep(SetView(v))
  \/ \E name \in TemplateNames : EditStep(handleSaveAsTemplate(name))
  \/ \E i \in 1..MaxTemplates : EditStep(handleLoadTemplate(i))

SpecEdit == Init /\ [][NextEdit]_vars

\* C17: starting from the default seed invoice, after any sequence of editing
\* operations (add, update or remove a line item; toggle reverse charge; set
\* vatRate; edit company, client, payment or detail fields; manual renumber;
\* load a template saved from the session) the current invoice has amount =
\* quantity * unitPrice for every item, subtotal = the sum of the amounts,
\* vatAmount = (reverse charge ? 0 : subtotal * vatRate / 100) and total =
\* subtotal + vatAmount.
C17_Consistent ==
  started =>
    /\ \A i \in 1..Len(invoice.services) :
         invoice.services[i].amount =
           Times(invoice.services[i].quantity, invoice.services[i].unitPrice)
    /\ invoice.subtotal = SumOfAmounts(invoice.services)
    /\ invoice.vatRate.k = "num"
    /\ invoice.vatAmount =
         IF invoice.reverseCharge.applicable THEN [k |-> "num", v |-> 0]
         ELSE [k |-> "num",
               v |-> (invoice.subtotal.v * invoice.vatRate.v) \div 100]
    /\ invoice.total = Plus(invoice.subtotal, invoice.vatAmount)

\* C17 witness: a template was saved with VAT at 20 %, the quantity was then
\* edited and saved, and the template was loaded: the invoice on screen has
\* the template's quantity again and VAT on its subtotal
C17_Witness ==
  /\ started
  /\ savePending
  /\ calls = 2
  /\ lsInvoice.present
  /\ Len(lsInvoice.v.services) = 1
  /\ Len(invoice.services) = 1
  /\ lsInvoice.v.services[1].quantity = Num(2)
  /\ invoice.services[1].quantity = Num(1)
  /\ ~invoice.reverseCharge.applicable
  /\ invoice.vatRate = Num(20)
  /\ invoice.vatAmount.k = "num"
  /\ invoice.vatAmount.v > 0

----------------------------------------------------------------------------
(* Claims about persistence of the invoice on screen (Spec)                *)

\* C18: the invoice is persisted after every mutation. After any edit,
\* renumbering, template load or import, once the pending auto-save has run
\* (the application is idle) the stored snapshot of the current invoice equals
\* the invoice in memory. A store emptied from outside the application
\* (clearAllData has no caller in it) is set aside.
C18_Persisted ==
  (Idle /\ lsInvoice.present) => lsInvoice = saveCurrentInvoice(invoice)

C19_Step ==
  handleGenerateNewNumber =>
    /\ CounterValue(lsCounter') = CounterValue(lsCounter) + 1
    /\ invoice'.details.invoiceNumber =
         ExpectedNumber(now, tz, CounterValue(lsCounter) + 1)
    /\ [invoice' EXCEPT !.details.invoiceNumber =
                          invoice.details.invoiceNumber] = invoice

\* C19: manual renumbering uses the same numbering algorithm: it consumes
\* exactly one counter value and sets details.invoiceNumber of the existing
\* invoice to the new number; every other field of the invoice (id, dates,
\* parties, services, tax treatment, aggregates) is unchanged.
C19_Renumber == [][C19_Step]_vars

\* C19 witness: an invoice whose date was edited has just been renumbered: it
\* differs from the saved snapshot in its number and in nothing else
C19_Witness ==
  /\ started
  /\ savePending
  /\ lsInvoice.present
  /\ invoice.details.invoiceDate \in DateInputs
  /\ invoice.details.invoiceNumber # lsInvoice.v.details.invoiceNumber
  /\ [invoice EXCEPT !.details.invoiceNumber =
                       lsInvoice.v.details.invoiceNumber] = lsInvoice.v

----------------------------------------------------------------------------
(* Claims about the dates of a derived invoice (SpecNumbering)             *)

\* the day t falls on and the day 30 days later, as the details would show
\* them together with a number issued that day
StampedOn(details, t) ==
  /\ SubSeq(details.invoiceNumber, 6, 15) = DateString(CalendarDate(t))
  /\ details.invoiceDate = DateString(CalendarDate(t))
  /\ details.servicePeriodStart = DateString(CalendarDate(t))
  /\ details.servicePeriodEnd = DateString(CalendarDate(t + 30 * DayLength))

C20_Step ==
  ((Start /\ ~lsInvoice.present) \/ (LoadStep /\ invoice' # invoice)) =>
    \/ StampedOn(invoice'.details, now)
    \/ StampedOn(invoice'.details, now + tz)

\* C20: an invoice derived from a template or from the default seed is stamped
\* with one and the same current calendar day: the date in its invoiceNumber,
\* details.invoiceDate and details.servicePeriodStart are all that day, and
\* details.servicePeriodEnd is exactly 30 calendar days later.
C20_OneDay == [][C20_Step]_vars

----------------------------------------------------------------------------
(* A storage that rejects writes: SpecFault                                *)

\* the quota is reached, or space is freed again
StorageFault ==
  /\ setItemThrows' = ~setItemThrows
  /\ UNCHANGED <<now, tz, storeVars, appVars, calls>>
  /\ FrameCalc

\* the operations that write templates or take a number, the auto-save and
\* the navigation between them, with setItem failing at times
NextFault ==
  \/ Step(StorageFault)
  \/ Step(Tick)
  \/ Step(Start)
  \/ Step(AutoSave)
  \/ Step(handleGenerateNewNumber)
  \/ \E v \in {"editor", "templates"} : Step(SetView(v))
  \/ \E name \in TemplateNames : Step(handleSaveAsTemplate(name))
  \/ \E i \in 1..MaxTemplates : Step(handleLoadTemplate(i))
  \/ \E name \in TemplateNames : Step(createTemplate(name))
  \/ \E i \in 1..MaxTemplates, name \in RenameInputs :
       Step(editTemplate(i, name))
  \/ \E i \in 1..MaxTemplates : Step(handleDeleteTemplate(i))
  \/ \E i \in 1..MaxTemplates : Step(handleDuplicateTemplate(i))

SpecFault == Init /\ [][NextFault]_vars

\* the operations that call saveTemplate, deleteTemplate or
\* generateInvoiceNumber
WritingOperation ==
  \/ Start /\ ~lsInvoice.present
  \/ handleGenerateNewNumber
  \/ LoadStep
  \/ \E name \in TemplateNames :
       handleSaveAsTemplate(name) \/ createTemplate(name)
  \/ \E i \in 1..MaxTemplates :
       \/ \E name \in RenameInputs : editTemplate(i, name)
       \/ handleDeleteTemplate(i)
       \/ handleDuplicateTemplate(i)

C21_Step ==
  (/\ setItemThrows
   /\ ~UNCHANGED <<lsTemplates, lsCounter, tmTemplates, invoice, calls,
                   started, view>>)
    => ~WritingOperation

\* C21: a persistence fault never corrupts state. When the storage write fails
\* during saveTemplate, deleteTemplate or generateInvoiceNumber, the stored
\* template list and counter keep their values, no invoice number is issued,
\* and the template list and the invoice in memory are unchanged.
C21_FaultContained == [][C21_Step]_vars

\* C21 witness: the first start was attempted with the storage full:
\* generateInvoiceNumber threw, nothing is stored and nothing is mounted
C21_Witness ==
  /\ setItemThrows
  /\ steps = 2
  /\ ~started
  /\ lsCounter = Absent
  /\ calls = 0

----------------------------------------------------------------------------
(* Claims about absent records (Spec)                                      *)

\* ids asked for: those of the templates the manager shows, and one that no
\* template has
ProbeIds ==
  {tmTemplates[i].id : i \in 1..Len(tmTemplates)} \cup {<<"n", "o">>}

NotStored(id) ==
  \A j \in 1..Len(loadTemplates(lsTemplates)) :
    loadTemplates(lsTemplates)[j].id # id

C22_Step ==
  /\ \A id \in ProbeIds :
       NotStored(id) =>
         /\ getTemplate(lsTemplates, id) = Absent
         /\ deleteTemplate(lsTemplates, id).present
         /\ loadTemplates(deleteTemplate(lsTemplates, id))
              = loadTemplates(lsTemplates)
  /\ ~lsTemplates.present => loadTemplates(lsTemplates) = <<>>
  /\ ~lsInvoice.present => loadCurrentInvoice(lsInvoice) = Absent
  /\ \A i \in 1..MaxTemplates :
       (handleDeleteTemplate(i) /\ NotStored(tmTemplates[i].id)) =>
         /\ loadTemplates(lsTemplates') = loadTemplates(lsTemplates)
         /\ tmTemplates' = loadTemplates(lsTemplates)

\* C22: absence is a normal result. deleteTemplate(id) for an id that is not
\* in the store leaves the template list unchanged and raises nothing,
\* getTemplate(id) for such an id returns null, and with nothing stored
\* loadTemplates returns the empty list and loadCurrentInvoice returns null.
C22_Absence == [][C22_Step]_vars

\* C22 witness: the store was emptied while the manager showed a template, and
\* that template was then deleted: the key holds the empty list
C22_Witness ==
  /\ view = "templates"
  /\ lsTemplates = Stored(<<>>)
  /\ tmTemplates = <<>>
  /\ ~lsInvoice.present
  /\ ~lsCounter.present

----------------------------------------------------------------------------
(* utils/logger.ts                                                         *)

MAX_LOGS == 1000

\* LogLevel, in the order of the array in shouldLog
Levels == <<"DEBUG", "INFO", "WARN", "ERROR">>

\* levels.indexOf(level)
LevelIndex(level) == CHOOSE i \in 1..Len(Levels) : Levels[i] = level

\* a mutation of shouldLog: the minimum level is not looked at
shouldLogAnyLevel(en, min, level) == en

\* shouldLog(level) of a logger with the fields enabled = en, minLevel = min
shouldLog(en, min, level) ==
  IF ~en THEN FALSE ELSE LevelIndex(level) >= LevelIndex(min)

\* createLogEntry: entries are told apart by the order of their creation
createLogEntry(level, message) ==
  [seq |-> logCount + 1, level |-> level, message |-> message]

getLogs(ls) == IF ls.present THEN ls.v ELSE <<>>

\* a mutation of persistLog: the entries above the limit are cut at the end
persistLogKeepOldest(ls, entry) ==
  LET logs == Append(getLogs(ls), entry)
  IN SetItem(ls, Stored(IF Len(logs) > MAX_LOGS
                          THEN SubSeq(logs, 1, MAX_LOGS)
                          ELSE logs))

\* persistLog(entry): push, logs.splice(0, logs.length - MAX_LOGS), setItem;
\* an exception is caught and printed
persistLog(ls, entry) ==
  LET logs == Append(getLogs(ls), entry)
  IN SetItem(ls, Stored(IF Len(logs) > MAX_LOGS
                          THEN SubSeq(logs, Len(logs) - MAX_LOGS + 1,
                                      Len(logs))
                          ELSE logs))

\* debug / info / warn / error / logUserAction / logPerformance at the given
\* level, on the stored log ls, by a logger configured (en, min)
Logged(ls, en, min, level, message) ==
  IF shouldLog(en, min, level)
    THEN persistLog(ls, createLogEntry(level, message))
    ELSE ls

Created(en, min, level) ==
  IF shouldLog(en, min, level) THEN logCount + 1 ELSE logCount

LogFrame ==
  UNCHANGED <<calcVars, envVars, storeVars, appVars, pdfVars, fileVars, reqVars,
              histVars>>

\* one of log.debug, log.info, log.warn, log.error, log.userAction (INFO),
\* log.performance (DEBUG)
LogCall(level) ==
  /\ lsLogs' = Logged(lsLogs, enabled, minLevel, level, "log")
  /\ logCount' = Created(enabled, minLevel, level)
  /\ UNCHANGED <<lsSettings, enabled, minLevel>>
  /\ LogFrame

\* configure(enabled, minLevel): the fields, saveSettings, this.info
configure(en, min) ==
  /\ enabled' = en
  /\ minLevel' = min
  /\ lsSettings' = SetItem(lsSettings,
                           Stored([enabled |-> en, minLevel |-> min]))
  /\ IF setItemThrows
       THEN UNCHANGED <<lsLogs, logCount>>
       ELSE /\ lsLogs' = Logged(lsLogs, en, min, "INFO",
                                "Logger configuration updated")
            /\ logCount' = Created(en, min, "INFO")
  /\ LogFrame


\* clearLogs(): removeItem, then this.info('Logger', 'All logs cleared')
clearLogs ==
  /\ lsLogs' = Logged(Absent, enabled, minLevel, "INFO", "All logs cleared")
  /\ logCount' = Created(enabled, minLevel, "INFO")
  /\ UNCHANGED <<lsSettings, enabled, minLevel>>
  /\ LogFrame

\* the page is loaded again: new Logger() runs loadSettings over the defaults
LoggerReload ==
  /\ enabled' = IF lsSettings.present THEN lsSettings.v.enabled ELSE TRUE
  /\ minLevel' = IF lsSettings.present THEN lsSettings.v.minLevel
                 ELSE "DEBUG"
  /\ UNCHANGED <<lsLogs, lsSettings, logCount>>
  /\ LogFrame

MaxLogCalls == 4

\* the logger in use: at most MaxLogCalls entries are created
NextLogger ==
  \/ \E level \in {Levels[i] : i \in 1..Len(Levels)} :
       logCount < MaxLogCalls /\ LogCall(level)
  \/ \E en \in BOOLEAN, min \in {Levels[i] : i \in 1..Len(Levels)} :
       logCount < MaxLogCalls /\ configure(en, min)
  \/ logCount < MaxLogCalls /\ clearLogs
  \/ LoggerReload

SpecLogger == Init /\ [][NextLogger]_vars

MaxLogWrites == 1003

\* a long run of log calls with the default configuration
NextLogLimit == logCount < MaxLogWrites /\ LogCall("INFO")

SpecLogLimit == Init /\ [][NextLogLimit]_vars

----------------------------------------------------------------------------
(* Claims about the logger (SpecLogLimit, SpecLogger)                      *)

\* C23: after any sequence of log calls the stored log holds at most 1000
\* entries, and they are the most recently written ones in the order in which
\* they were written: the entries removed at the limit are the oldest.
C23_LastThousand ==
  LET logs == getLogs(lsLogs)
  IN /\ Len(logs) <= 1000
     /\ Len(logs) = IF logCount <= 1000 THEN logCount ELSE 1000
     /\ \A i \in 1..Len(logs) : logs[i].seq = logCount - Len(logs) + i

\* C23 witness: 1002 entries were written; the log holds entries 3 to 1002
C23_Witness ==
  /\ logCount = 1002
  /\ Len(getLogs(lsLogs)) = 1000
  /\ getLogs(lsLogs)[1].seq = 3
  /\ getLogs(lsLogs)[1000].seq = 1002

C24_Step == clearLogs => getLogs(lsLogs') = <<>>

\* C24: logger.clearLogs() clears all logs: immediately after it returns,
\* getLogs() returns the empty list, whatever the logger configuration.
C24_Cleared == [][C24_Step]_vars

LevelSet == {Levels[i] : i \in 1..Len(Levels)}

Passes(en, min, level) ==
  en /\ \E i, j \in 1..4 :
          /\ <<"DEBUG", "INFO", "WARN", "ERROR">>[i] = min
          /\ <<"DEBUG", "INFO", "WARN", "ERROR">>[j] = level
          /\ i <= j

Added(level) ==
  /\ Len(getLogs(lsLogs')) = Len(getLogs(lsLogs)) + 1
  /\ SubSeq(getLogs(lsLogs'), 1, Len(getLogs(lsLogs))) = getLogs(lsLogs)
  /\ getLogs(lsLogs')[Len(getLogs(lsLogs'))].level = level

NoneAdded ==
  \A i \in 1..Len(getLogs(lsLogs')) :
    \E j \in 1..Len(getLogs(lsLogs)) : getLogs(lsLogs)[j] = getLogs(lsLogs')[i]

C25_Step ==
  /\ \A level \in LevelSet :
       LogCall(level) =>
         IF Passes(enabled, minLevel, level) THEN Added(level)
         ELSE lsLogs' = lsLogs
  /\ \A en \in BOOLEAN, min \in LevelSet :
       configure(en, min) =>
         /\ lsSettings' = Stored([enabled |-> en, minLevel |-> min])
         /\ IF Passes(en, min, "INFO") THEN Added("INFO")
            ELSE lsLogs' = lsLogs
  /\ ~enabled => (NoneAdded \/ \E min \in LevelSet : configure(TRUE, min))
  /\ LoggerReload => (enabled' = enabled /\ minLevel' = minLevel)

\* C25: a log call persists an entry if and only if logging is enabled and
\* the call's level is at or above the configured minimum level in the order
\* DEBUG < INFO < WARN < ERROR; after configure(false, level) no call adds an
\* entry; the configuration is persisted and a reload keeps it.
C25_LevelFilter == [][C25_Step]_vars

\* C25 witness: the logger was set to WARN, which the INFO entry of configure
\* did not pass, and an ERROR call was then written as the first entry
C25_Witness ==
  /\ enabled
  /\ minLevel = "WARN"
  /\ lsSettings = Stored([enabled |-> TRUE, minLevel |-> "WARN"])
  /\ getLogs(lsLogs) = <<[seq |-> 1, level |-> "ERROR", message |-> "log"]>>

----------------------------------------------------------------------------
(* PDF generation: calls of generateInvoicePDF, possibly overlapping       *)

NextPdf ==
  \/ \E g \in 1..MaxGenerations, elementId \in ElementIds :
       generateInvoicePDFBegin(g, elementId)
  \/ \E g \in 1..MaxGenerations, ok \in BOOLEAN : generateInvoicePDFEnd(g, ok)

SpecPdf == Init /\ [][NextPdf]_vars

\* C26: whenever no PDF generation is in progress, the preview element's
\* width and min-height styles are the ones it had before any generation
\* started: they are restored on completion and on failure, also when two
\* generations overlap; a call for a missing element changes nothing.
C26_Restored ==
  (\A g \in 1..MaxGenerations : ~InProgress(g)) => style = OriginalStyle

----------------------------------------------------------------------------
(* Claims about failed template loads and imported invoices (Spec)         *)

FailedLoad(i) ==
  /\ view = "templates"
  /\ i <= Len(tmTemplates)
  /\ RecalculateThrows(LoadShell(tmTemplates[i], Issue.number))
  /\ handleLoadTemplate(i)

C27_Step ==
  \A i \in 1..MaxTemplates :
    FailedLoad(i) =>
      /\ invoice' = invoice
      /\ view' = view
      /\ lsCounter' = lsCounter

\* C27: a template load that fails (the template's content has no services)
\* has no effect: the current invoice, the active view and the persisted
\* counter are the same as before the attempt.
C27_NoEffect == [][C27_Step]_vars

DerivedFieldsHold(inv) ==
  /\ \A i \in 1..Len(inv.services) :
       inv.services[i].amount =
         Times(inv.services[i].quantity, inv.services[i].unitPrice)
  /\ inv.subtotal = SumOfAmounts(inv.services)
  /\ inv.reverseCharge.applicable => inv.vatAmount = [k |-> "num", v |-> 0]
  /\ inv.total = Plus(inv.subtotal, inv.vatAmount)

\* C28: in every reachable state, including right after a startup from a saved
\* snapshot and right after the import of a backup, the current invoice has
\* amount = quantity * unitPrice for every item, subtotal = the sum of the
\* amounts, vatAmount = 0 under reverse charge and total = subtotal + vatAmount.
C28_AlwaysConsistent == started => DerivedFieldsHold(invoice)

----------------------------------------------------------------------------
(* The template store, filled by the app alone: SpecStore                  *)

\* save, edit, duplicate and delete from a first visit; nothing is imported
NextStore ==
  \/ Step(Tick)
  \/ Step(Start)
  \/ Step(AutoSave)
  \/ \E v \in {"editor", "templates"} : Step(SetView(v))
  \/ \E name \in TemplateNames : Step(handleSaveAsTemplate(name))
  \/ \E name \in TemplateNames : Step(createTemplate(name))
  \/ \E i \in 1..MaxTemplates, name \in RenameInputs :
       Step(editTemplate(i, name))
  \/ \E i \in 1..MaxTemplates : Step(handleDeleteTemplate(i))
  \/ \E i \in 1..MaxTemplates : Step(handleDuplicateTemplate(i))

SpecStore == Init /\ [][NextStore]_vars

UniqueIds(templates) ==
  \A i, j \in 1..Len(templates) :
    templates[i].id = templates[j].id => i = j

\* `after` is `before` without its p-th record
Without(before, p, after) ==
  after = SubSeq(before, 1, p - 1) \o SubSeq(before, p + 1, Len(before))

C29_Step ==
  /\ UniqueIds(loadTemplates(lsTemplates'))
  /\ \A i \in 1..MaxTemplates :
       handleDeleteTemplate(i) =>
         LET id == tmTemplates[i].id
             before == loadTemplates(lsTemplates)
             after == loadTemplates(lsTemplates')
         IN /\ \A j \in 1..Len(after) : after[j].id # id
            /\ \E p \in 1..Len(before) :
                 before[p].id = id /\ Without(before, p, after)

----------------------------------------------------------------------------
(* Export, later changes, import of the exported file: SpecBackup          *)

\* a backup is taken at some point of a session and imported at a later one
NextBackup ==
  \/ Step(Tick)
  \/ Step(Start)
  \/ Step(Reload)
  \/ Step(AutoSave)
  \/ Step(handleGenerateNewNumber)
  \/ \E v \in CompanyInputs : Step(updateCompany(v))
  \/ \E v \in {"editor", "templates"} : Step(SetView(v))
  \/ \E name \in TemplateNames : Step(handleSaveAsTemplate(name))
  \/ \E i \in 1..MaxTemplates : Step(handleDeleteTemplate(i))
  \/ Step(clearAllData)
  \/ Step(keepExportedData)
  \/ Step(importKeptData)

SpecBackup == Init /\ [][NextBackup]_vars

C30_Step ==
  importKeptData =>
    LET S == download.from
    IN /\ loadTemplates(lsTemplates') = loadTemplates(S[1])
       /\ getLastInvoiceNumber(lsCounter') = getLastInvoiceNumber(S[3])
       /\ S[2].present =>
            loadCurrentInvoice(lsInvoice') = loadCurrentInvoice(S[2])
       /\ <<lsTemplates, lsInvoice, lsCounter>> = S =>
            /\ loadTemplates(lsTemplates') = loadTemplates(lsTemplates)
            /\ loadCurrentInvoice(lsInvoice') = loadCurrentInvoice(lsInvoice)
            /\ getLastInvoiceNumber(lsCounter')
                 = getLastInvoiceNumber(lsCounter)

\* C30: export followed by import is a round trip: importing the document that
\* exportData produced in state S into any later persisted state restores the
\* template list and the numbering counter of S, and S's current invoice when
\* S had one; importing it into S itself changes no persisted value.
C30_RoundTrip == [][C30_Step]_vars

\* C30 witness: a backup was taken after the first visit, a second number was
\* issued and saved, and the backup was imported: the counter is 1 again and
\* the stored items are those of the export
C30_Witness ==
  /\ download.doc.valid
  /\ calls = 2
  /\ savePending
  /\ getLastInvoiceNumber(lsCounter) = 1
  /\ lsInvoice = download.from[2]
  /\ lsCounter = download.from[3]
  /\ loadTemplates(lsTemplates) = loadTemplates(download.from[1])

====
